---- MODULE Spec2Model ----
(***************************************************************************)
(* A model of the nested-block fork of draft-js: the content-block tree    *)
(* and the transactions splitNestedBlockInContentState and                 *)
(* insertFragmentIntoContentState, applied to an editor's content state    *)
(* (specification Spec), and the HTML import                               *)
(* convertFromHTMLtoContentBlocks, applied to DOM trees (SpecImport).      *)
(***************************************************************************)
EXTENDS Integers, Sequences, FiniteSets, TLC

VARIABLES
    contentState,   \* the current ContentState: blockMap, selectionBefore, selectionAfter
    selection,      \* the SelectionState the caller passes to the next transaction
    fragment,       \* the fragment (an ordered map of blocks) held for insertion
    keyCount,       \* how many keys generateRandomKey has handed out
    last,           \* the last transaction: its name, whether it threw, its arguments
    ops,            \* the number of transactions applied so far
    html,           \* the HTML string held for import
    EMPTY_CHUNK,    \* the module-level object EMPTY_CHUNK of the import
    imported,       \* the last import: the string passed, what came back
    browser,        \* the environment of the selection code: what the browser offers
    nativeSelection,\* the browser's Selection object
    pass,           \* the reconciliation pass: selection, units, calls made
    component       \* the DraftEditorContents instance and what it rendered

editorVars == <<contentState, selection, fragment, keyCount, last, ops>>
importVars == <<html, EMPTY_CHUNK, imported>>
selectionVars == <<browser, nativeSelection, pass>>
vars == <<contentState, selection, fragment, keyCount, last, ops,
          html, EMPTY_CHUNK, imported, browser, nativeSelection, pass,
          component>>

(* ------------------------------ bounds -------------------------------- *)

\* The largest number of blocks of an initial document.
MaxInitBlocks == 3
\* The number of characters of every block of an initial document or fragment.
TextLen == 2
\* The largest number of blocks of a fragment.
MaxFrag == 3
\* The largest number of transactions in one behaviour.
MaxOps == 2
\* The largest number of nodes of an imported document, the body aside.
MaxNodes == 3
\* The largest number of nodes of an imported document that has no
\* structural element, the body aside.
MaxPlainNodes == 4
\* The largest number of nodes of an imported document of inline elements,
\* the body aside.
MaxStyledNodes == 4
\* The largest number of white-space characters of a blank HTML string.
MaxBlank == 1
MaxListNodes == 4

(* ------------------------------- keys --------------------------------- *)

\* The keys of the blocks of an initial document, in document order.
DocKeys == <<"a", "b", "c", "d", "e">>
\* The keys of the blocks of a fragment, in fragment order.
FragKeys == <<"f", "g", "h", "i", "j">>
\* The keys generateRandomKey returns, in the order it returns them.
FreshKeys == <<"k01", "k02", "k03", "k04", "k05", "k06", "k07", "k08",
               "k09", "k10", "k11", "k12", "k13", "k14", "k15", "k16">>

\* generateRandomKey(): the n-th call returns a key no earlier call returned
\* and no block of a document or fragment carries.
generateRandomKey(n) == FreshKeys[n + 1]

(* ------------------------------ blocks -------------------------------- *)

\* JavaScript values that are no strings are written between angle brackets,
\* which no key, tag or style name of the model holds: the value undefined
\* (where a property read meets no property), the function objects of
\* Object.prototype, each under its name, and the object Object.prototype.
\* The string 'undefined' is another value.
undefined == "<undefined>"

\* A value is undefined; the value may be of any kind.
isUndefined(value) == ToString(value) = ToString(undefined)

\* !value of a key, a tag or a looked-up property: undefined and the empty
\* string are falsy, any other string and any object is truthy.
falsy(value) == value \in {"", undefined}

\* The function object of the given name.
functionNamed(name) == "<function " \o name \o ">"

\* The functions Object.prototype holds, each with the number of parameters
\* it is declared with (its length); Object is its constructor.
parametersOf ==
    [n \in {"Object", "hasOwnProperty", "isPrototypeOf", "propertyIsEnumerable",
            "toLocaleString", "toString", "valueOf", "__defineGetter__",
            "__defineSetter__", "__lookupGetter__", "__lookupSetter__"} |->
        CASE n \in {"toLocaleString", "toString", "valueOf"} -> 0
          [] n \in {"__defineGetter__", "__defineSetter__"} -> 2
          [] OTHER -> 1]

\* What a property read of a plain object ({} or an object literal) finds in
\* Object.prototype when the object has no own property of that name.
inheritedOfObject ==
    [n \in (DOMAIN parametersOf \ {"Object"}) \cup {"constructor", "__proto__"} |->
        CASE n = "__proto__" -> "<object>"
          [] n = "constructor" -> functionNamed("Object")
          [] OTHER -> functionNamed(n)]

\* The name a value has as a property name, its conversion to a string:
\* undefined names the property 'undefined', a plain object '[object Object]',
\* a function its source text, a string itself.
propertyName(k) ==
    IF k = undefined THEN "undefined"
    ELSE IF k = "<object>" THEN "[object Object]"
    ELSE IF \E n \in DOMAIN parametersOf : k = functionNamed(n)
    THEN "function " \o (CHOOSE n \in DOMAIN parametersOf : k = functionNamed(n))
         \o "() { [native code] }"
    ELSE k

\* !value.length of a value that is not undefined: a string has its number
\* of characters, a function its number of parameters, a plain object no
\* length.
noLength(value) ==
    \/ value \in {"", "<object>"}
    \/ \E n \in DOMAIN parametersOf : value = functionNamed(n) /\ parametersOf[n] = 0

\* object[k] of a plain object: the own property, or the inherited one, or
\* undefined. '__proto__' is never an own property: object['__proto__'] =
\* string sets nothing.
getProperty(object, k) ==
    IF propertyName(k) \in DOMAIN object THEN object[propertyName(k)]
    ELSE IF propertyName(k) \in DOMAIN inheritedOfObject
    THEN inheritedOfObject[propertyName(k)]
    ELSE undefined

\* The default ContentBlock record.

defaultRecord ==
    [key |-> "", type |-> "unstyled", text |-> <<>>, characterList |-> <<>>,
     depth |-> 0, data |-> {}, parentKey |-> ""]

\* A CharacterMetadata value: a style set and an optional entity (0: none).
\* Two values with equal contents are the same value.
CharacterMetadata(style, entity) == [style |-> style, entity |-> entity]

\* The j-th character of the block numbered i: every character of a document
\* or fragment is different, so that a lost or moved character shows.
CharAt(i, j) == 10 * i + j

\* The metadata of that character: odd positions are bold, and each character
\* carries an entity of its own.
MetaAt(i, j) ==
    CharacterMetadata(IF j % 2 = 1 THEN {"BOLD"} ELSE {}, CharAt(i, j))

\* record.merge(changes): the record with the fields of `changes` replaced.
merge(block, changes) ==
    [f \in DOMAIN block |-> IF f \in DOMAIN changes THEN changes[f] ELSE block[f]]

\* The half-open slice [from, to) of a sequence, as String.slice and List.slice
\* for indices that are not negative: both ends are clamped to the length.
slice(s, from, to) ==
    LET lo == IF from > Len(s) THEN Len(s) ELSE from
        hi == IF to > Len(s) THEN Len(s) ELSE to
    IN  SubSeq(s, lo + 1, hi)

\* slice(from) with no end: to the end of the sequence.
sliceFrom(s, from) == slice(s, from, Len(s))

(* ---------------------------- block maps ------------------------------ *)

\* The index of the first block with key k, or 0.
IndexOfKey(bm, k) ==
    IF \E i \in 1..Len(bm) : bm[i].key = k
    THEN CHOOSE i \in 1..Len(bm) : bm[i].key = k /\ \A j \in 1..(i - 1) : bm[j].key # k
    ELSE 0

KeysOf(bm) == {bm[i].key : i \in 1..Len(bm)}

\* Seq.toOrderedMap(): the entries are set in order; a key that comes again
\* keeps its first position and takes the later value.
RECURSIVE toOrderedMap(_)
toOrderedMap(entries) ==
    IF entries = <<>> THEN <<>>
    ELSE LET front == toOrderedMap(SubSeq(entries, 1, Len(entries) - 1))
             b == entries[Len(entries)]
             at == IndexOfKey(front, b.key)
         IN  IF at = 0 THEN Append(front, b)
             ELSE [front EXCEPT ![at] = b]

\* BlockMapBuilder.createFromArray(blocks): the ordered map key -> block.
createFromArray(blocks) == toOrderedMap(blocks)

(* ----------------------------- selection ------------------------------ *)

SelectionState(ak, ao, fk, fo, back) ==
    [anchorKey |-> ak, anchorOffset |-> ao, focusKey |-> fk, focusOffset |-> fo,
     isBackward |-> back, hasFocus |-> TRUE]

isCollapsed(sel) ==
    sel.anchorKey = sel.focusKey /\ sel.anchorOffset = sel.focusOffset

getStartKey(sel) == IF sel.isBackward THEN sel.focusKey ELSE sel.anchorKey
getStartOffset(sel) == IF sel.isBackward THEN sel.focusOffset ELSE sel.anchorOffset

\* The selection collapsed at offset `offset` of block `key`, as both
\* transactions build it from the selection they were given.
collapsedAt(sel, key, offset) ==
    merge(sel, [anchorKey |-> key, anchorOffset |-> offset,
                focusKey |-> key, focusOffset |-> offset, isBackward |-> FALSE])

(* -------------------- splitNestedBlockInContentState ------------------ *)

\* What a transaction hands back: the ContentState it returns and the key
\* counter after it, or the error it threw (and then no ContentState: the
\* caller keeps the one it had).
Returned(cs, kc) == [threw |-> "", contentState |-> cs, keyCount |-> kc]
Thrown(err, cs, kc) == [threw |-> err, contentState |-> cs, keyCount |-> kc]

\* blockAbove: the head of the block, under a new key.
blockAboveOf(blockToSplit, offset, key) ==
    merge(blockToSplit,
          [text |-> slice(blockToSplit.text, 0, offset),
           characterList |-> slice(blockToSplit.characterList, 0, offset),
           key |-> key,
           parentKey |-> blockToSplit.parentKey])

\* A faulty variant of blockBelowOf: the tail starts one character late.
blockBelowOf_skipsOne(blockAbove, blockToSplit, offset, key) ==
    merge(blockAbove,
          [key |-> key,
           parentKey |-> blockToSplit.parentKey,
           text |-> sliceFrom(blockToSplit.text, offset + 1),
           characterList |-> sliceFrom(blockToSplit.characterList, offset + 1),
           data |-> {}])

\* A faulty variant of blockBelowOf: the tail is given no key of its own and keeps the
\* head's.
blockBelowOf_keepsKey(blockAbove, blockToSplit, offset, key) ==
    merge(blockAbove,
          [parentKey |-> blockToSplit.parentKey,
           text |-> sliceFrom(blockToSplit.text, offset),
           characterList |-> sliceFrom(blockToSplit.characterList, offset),
           data |-> {}])

\* blockBelow: the tail of the block, under a new key, its data reset.
blockBelowOf(blockAbove, blockToSplit, offset, key) ==
    merge(blockAbove,
          [key |-> key,
           parentKey |-> blockToSplit.parentKey,
           text |-> sliceFrom(blockToSplit.text, offset),
           characterList |-> sliceFrom(blockToSplit.characterList, offset),
           data |-> {}])

\* A faulty variant of newEmptyBlockOf: the data is reset as on the tail.
newEmptyBlockOf_clearsData(blockToSplit) ==
    merge(blockToSplit,
          [text |-> <<>>, characterList |-> <<>>,
           parentKey |-> blockToSplit.parentKey, data |-> {}])

\* newEmptyBlock: the block itself (its key too) with no text.
newEmptyBlockOf(blockToSplit) ==
    merge(blockToSplit,
          [text |-> <<>>, characterList |-> <<>>,
           parentKey |-> blockToSplit.parentKey])

\* A faulty variant of splitReplacement: three blocks whatever the offset.
splitReplacement_alwaysThree(blockAbove, newEmptyBlock, blockBelow) ==
    <<blockAbove, newEmptyBlock, blockBelow>>

\* The blocks put in place of the split block, by the three cases.
splitReplacement(blockAbove, newEmptyBlock, blockBelow) ==
    IF Len(blockAbove.text) = 0
    THEN <<blockAbove, blockBelow>>
    ELSE IF Len(blockAbove.text) # 0 /\ Len(blockBelow.text) = 0
    THEN <<blockAbove, newEmptyBlock>>
    ELSE <<blockAbove, newEmptyBlock, blockBelow>>

\* A faulty variant of splitSelectionKey: the selection goes to the tail block whenever
\* the head is not empty.
splitSelectionKey_onBelow(blockAbove, newEmptyBlock, blockBelow) ==
    IF Len(blockAbove.text) = 0
    THEN blockAbove.key
    ELSE blockBelow.key

\* The key the returned selection is placed on, by the three cases.
splitSelectionKey(blockAbove, newEmptyBlock, blockBelow) ==
    IF Len(blockAbove.text) = 0
    THEN blockAbove.key
    ELSE newEmptyBlock.key

\* invariant(selectionState.isCollapsed(), 'Selection range must be collapsed.')
splitPrecondition(selectionState) == isCollapsed(selectionState)

splitNestedBlockInContentState(cs, selectionState, kc) ==
    IF ~splitPrecondition(selectionState)
    THEN Thrown("Invariant Violation", cs, kc)
    ELSE
    LET key == selectionState.anchorKey
        offset == selectionState.anchorOffset
        blockMap == cs.blockMap
        at == IndexOfKey(blockMap, key)
    IN  IF at = 0
        THEN Thrown("TypeError", cs, kc)
        ELSE
        LET blockToSplit == blockMap[at]
            blockAbove == blockAboveOf(blockToSplit, offset, generateRandomKey(kc))
            blockBelow == blockBelowOf(blockAbove, blockToSplit, offset,
                                       generateRandomKey(kc + 1))
            newEmptyBlock == newEmptyBlockOf(blockToSplit)
            blocksBefore == SubSeq(blockMap, 1, at - 1)
            blocksAfter == SubSeq(blockMap, at + 1, Len(blockMap))
            newBlocks == toOrderedMap(
                blocksBefore
                \o splitReplacement(blockAbove, newEmptyBlock, blockBelow)
                \o blocksAfter)
            selKey == splitSelectionKey(blockAbove, newEmptyBlock, blockBelow)
        IN  Returned([blockMap |-> newBlocks,
                      selectionBefore |-> selectionState,
                      selectionAfter |-> collapsedAt(selectionState, selKey, 0)],
                     kc + 2)

(* -------------------- insertFragmentIntoContentState ------------------ *)

\* insertIntoList(targetList, toInsert, offset): toInsert spliced in at offset.
insertIntoList(targetList, toInsert, offset) ==
    slice(targetList, 0, offset) \o toInsert \o sliceFrom(targetList, offset)

\* fragment.get(key): the index of the fragment's block with that key, or 0.
fragmentGet(frag, key) == IndexOfKey(frag, key)

\* keysMap[k]: keysMap is a plain object ({}).
lookup(keysMap, k) == getProperty(keysMap, k)

\* a || b on keys: a unless it is falsy.
orElse(a, b) == IF ~falsy(a) THEN a ELSE b

\* A faulty variant of pastedInto: the pasted text is appended to the target's text
\* instead of spliced in at the offset.
pastedInto_appended(targetBlock, pastedBlock, targetOffset) ==
    merge(targetBlock,
          [text |-> targetBlock.text \o pastedBlock.text,
           characterList |-> targetBlock.characterList \o pastedBlock.characterList,
           data |-> pastedBlock.data])

\* The one-block path: the pasted block's text and characters spliced into
\* the target block, which takes the pasted block's data.
pastedInto(targetBlock, pastedBlock, targetOffset) ==
    merge(targetBlock,
          [text |-> slice(targetBlock.text, 0, targetOffset)
                    \o pastedBlock.text
                    \o sliceFrom(targetBlock.text, targetOffset),
           characterList |-> insertIntoList(targetBlock.characterList,
                                            pastedBlock.characterList,
                                            targetOffset),
           data |-> pastedBlock.data])

\* The offset of the selection the one-block path returns.
finalOffsetOf(targetOffset, pastedBlock) == targetOffset + Len(pastedBlock.text)

\* A faulty variant of modifiedHeadOf: the appended block's characters are left out of
\* the character list.
modifiedHeadOf_headCharactersOnly(block, targetOffset, appendToHead) ==
    LET headText == slice(block.text, 0, targetOffset)
        headCharacters == slice(block.characterList, 0, targetOffset)
    IN  merge(block,
              [text |-> headText \o appendToHead.text,
               characterList |-> headCharacters,
               type |-> IF headText # <<>> THEN block.type ELSE appendToHead.type,
               data |-> appendToHead.data])

\* modifiedHead: the target block's head with the fragment's first block
\* appended; it keeps the target block's key and parent.
modifiedHeadOf(block, targetOffset, appendToHead) ==
    LET headText == slice(block.text, 0, targetOffset)
        headCharacters == slice(block.characterList, 0, targetOffset)
    IN  merge(block,
              [text |-> headText \o appendToHead.text,
               characterList |-> headCharacters \o appendToHead.characterList,
               type |-> IF headText # <<>> THEN block.type ELSE appendToHead.type,
               data |-> appendToHead.data])

\* The 'snippet' branch's keysMap: a new key is generated for every fragment
\* block but the first, in fragment order, and set under the block's key;
\* when two keys name one property the later assignment stays; the
\* assignment under '__proto__' sets no property.
snippetKeysMap(frag, kc) ==
    [k \in {propertyName(frag[i].key) : i \in 2..Len(frag)} \ {"__proto__"} |->
        generateRandomKey(
            kc + (CHOOSE i \in 2..Len(frag) :
                     /\ propertyName(frag[i].key) = k
                     /\ \A j \in (i + 1)..Len(frag) :
                           propertyName(frag[j].key) # k) - 2)]

\* The 'snippet' branch's copy of a fragment block: re-keyed, and re-parented
\* to the head when its parent in the fragment is a snippet.
snippetBlockOf(frag, fragmentBlock, keysMap, modifiedHead) ==
    LET p == fragmentGet(frag, fragmentBlock.parentKey)
    IN  IF p # 0 /\ frag[p].type = "snippet"
        THEN merge(fragmentBlock,
                   [parentKey |-> modifiedHead.key,
                    key |-> lookup(keysMap, fragmentBlock.key)])
        ELSE merge(fragmentBlock,
                   [parentKey |-> orElse(lookup(keysMap, fragmentBlock.parentKey),
                                         modifiedHead.parentKey),
                    key |-> lookup(keysMap, fragmentBlock.key)])

\* The other branch's keysMap. `fragment.key` of an ordered map is undefined,
\* so the entry is set under the property name "undefined".
defaultKeysMap(frag, modifiedHead) ==
    IF frag[1].type # "paragraph"
    THEN [k \in {"undefined"} |-> modifiedHead.key]
    ELSE [k \in {} |-> ""]

\* The other branch's copy of a fragment block: it keeps its key.
defaultBlockOf(fragmentBlock, keysMap, modifiedHead) ==
    IF falsy(fragmentBlock.parentKey) \/ noLength(fragmentBlock.parentKey)
    THEN merge(fragmentBlock, [parentKey |-> modifiedHead.parentKey])
    ELSE IF ~falsy(lookup(keysMap, fragmentBlock.parentKey))
    THEN merge(fragmentBlock, [parentKey |-> lookup(keysMap, fragmentBlock.parentKey)])
    ELSE fragmentBlock

\* What the forEach callback pushes for the target block: the head, then the
\* fragment's other blocks. No tail block is pushed.
pushedForTarget(block, targetOffset, frag, kc) ==
    LET appendToHead == frag[1]
        modifiedHead == modifiedHeadOf(block, targetOffset, appendToHead)
        rest == SubSeq(frag, 2, Len(frag))
    IN  IF appendToHead.type = "snippet"
        THEN LET keysMap == snippetKeysMap(frag, kc)
             IN  <<modifiedHead>>
                 \o [i \in 1..Len(rest) |->
                        snippetBlockOf(frag, rest[i], keysMap, modifiedHead)]
        ELSE LET keysMap == defaultKeysMap(frag, modifiedHead)
             IN  <<modifiedHead>>
                 \o [i \in 1..Len(rest) |->
                        defaultBlockOf(rest[i], keysMap, modifiedHead)]

\* The keys the multi-block path generates: one per fragment block but the
\* first, in the 'snippet' branch only.
keysGenerated(frag) == IF frag[1].type = "snippet" THEN Len(frag) - 1 ELSE 0

\* A faulty variant of insertPrecondition: the selection is not checked.
insertPrecondition_unchecked(selectionState) == TRUE

\* invariant(false, '`insertFragment` should only be called with a collapsed
\* selection state.') unless selectionState.isCollapsed().
insertPrecondition(selectionState) == isCollapsed(selectionState)

insertFragmentIntoContentState(cs, selectionState, frag, kc) ==
    IF ~insertPrecondition(selectionState)
    THEN Thrown("Invariant Violation", cs, kc)
    ELSE
    LET targetKey == getStartKey(selectionState)
        targetOffset == getStartOffset(selectionState)
        blockMap == cs.blockMap
        at == IndexOfKey(blockMap, targetKey)
    IN  IF Len(frag) = 1
        THEN IF at = 0
             THEN Thrown("TypeError", cs, kc)
             ELSE Returned(
                    [blockMap |-> [blockMap EXCEPT
                                     ![at] = pastedInto(blockMap[at], frag[1], targetOffset)],
                     selectionBefore |-> selectionState,
                     selectionAfter |->
                        collapsedAt(selectionState, targetKey,
                                    finalOffsetOf(targetOffset, frag[1]))],
                    kc)
        ELSE LET newBlockArr ==
                    IF at = 0 THEN blockMap
                    ELSE SubSeq(blockMap, 1, at - 1)
                         \o pushedForTarget(blockMap[at], targetOffset, frag, kc)
                         \o SubSeq(blockMap, at + 1, Len(blockMap))
             IN  Returned(
                    [blockMap |-> createFromArray(newBlockArr),
                     selectionBefore |-> selectionState,
                     selectionAfter |-> collapsedAt(selectionState, targetKey, 0)],
                    IF at = 0 THEN kc ELSE kc + keysGenerated(frag))

(* ------------------------- well-formed trees -------------------------- *)

\* The keys of the block with key k and of its ancestors, following parentKey
\* for at most `fuel` steps (a chain in a block map is no longer than the map).
RECURSIVE selfAndAncestors(_, _, _)
selfAndAncestors(bm, k, fuel) ==
    IF k = "" \/ fuel = 0 \/ IndexOfKey(bm, k) = 0 THEN {}
    ELSE {k} \cup selfAndAncestors(bm, bm[IndexOfKey(bm, k)].parentKey, fuel - 1)

\* Keys are unique across the whole tree.
UniqueKeys(bm) == \A i, j \in 1..Len(bm) : bm[i].key = bm[j].key => i = j

\* Every non-empty parentKey is the key of a block of the same tree.
ParentsResolve(bm) ==
    \A i \in 1..Len(bm) : bm[i].parentKey = "" \/ bm[i].parentKey \in KeysOf(bm)

\* The map read in order is a pre-order flattening of the forest: a block is
\* a root, or the child of the block before it or of one of that block's
\* ancestors.
PreOrder(bm) ==
    \A i \in 1..Len(bm) :
        \/ bm[i].parentKey = ""
        \/ /\ i > 1
           /\ bm[i].parentKey \in selfAndAncestors(bm, bm[i - 1].key, Len(bm))

WellFormed(bm) == UniqueKeys(bm) /\ ParentsResolve(bm) /\ PreOrder(bm)

\* characterList.length == text.length, for every block.
CharsMatchText(bm) == \A i \in 1..Len(bm) : Len(bm[i].characterList) = Len(bm[i].text)

(* ----------------------- HTML import: the DOM ------------------------- *)

\* Arbitrary max indent.
MAX_DEPTH == 4

\* The block delimiter '\r' of a chunk's text; no character of a text node is
\* one (getChunkForHTML strips them from the string).
CR == 0


\* The style attribute of an element: the three properties processInlineTag
\* reads, each the empty string when the attribute does not set it.
CSSStyle(fontWeight, fontStyle, textDecoration) ==
    [fontWeight |-> fontWeight, fontStyle |-> fontStyle,
     textDecoration |-> textDecoration]
NoStyle == CSSStyle("", "", "")

\* A DOM node: its nodeName in lower case, the textContent of a text node,
\* the style of an element, its child nodes in order, and whether it is an
\* instance of HTMLElement: an element of the HTML namespace is one, a text
\* node and an element of another namespace (SVG, MathML) are not.
TextNode(text) ==
    [nodeName |-> "#text", textContent |-> text, style |-> NoStyle,
     childNodes |-> <<>>, isHTMLElement |-> FALSE]
StyledElement(name, style, children) ==
    [nodeName |-> name, textContent |-> <<>>, style |-> style,
     childNodes |-> children, isHTMLElement |-> TRUE]
ForeignElement(name, style, children) ==
    [nodeName |-> name, textContent |-> <<>>, style |-> style,
     childNodes |-> children, isHTMLElement |-> FALSE]
Element(name, children) == StyledElement(name, NoStyle, children)

\* An HTML string: `blank` white-space characters and nothing else when
\* markup is empty, or else the serialisation of the nodes of `markup`.
HTMLString(blank, markup) == [blank |-> blank, markup |-> markup]

\* String.trim(): the white space at both ends is removed.
trim(string) == IF string.markup = <<>> THEN HTMLString(0, <<>>) ELSE string

\* getSafeBodyFromHTML: the body element the parser builds for the string;
\* white space that stands alone makes no node.
DOMBuilder(string) == Element("body", string.markup)

(* ---------------------- HTML import: chunks --------------------------- *)

\* A block descriptor of a chunk. The children of EMPTY_BLOCK are never read.
RawBlock(depth, key, parentKey, type) ==
    [depth |-> depth, key |-> key, parentKey |-> parentKey, type |-> type]

\* A chunk: text, the parallel arrays inlines and entities, the block
\* descriptors, and whether `blocks` is the array object of EMPTY_CHUNK
\* itself (a spread copies the reference, concat makes a new array).
Chunk(text, inlines, entities, blocks, shared) ==
    [text |-> text, inlines |-> inlines, entities |-> entities,
     blocks |-> blocks, shared |-> shared]

\* EMPTY_CHUNK when the module is loaded.
EMPTY_CHUNK_AtLoad == Chunk(<<>>, <<>>, <<>>, <<>>, TRUE)

\* a || b for keys: b when a is undefined or the empty string.
orDefault(a, b) == IF falsy(a) THEN b ELSE a

getBlockTypeForTag(tag) ==
    CASE tag = "ol" -> "ordered-list"
      [] tag = "ul" -> "unordered-list"
      [] tag = "li" -> "list-item"
      [] tag = "table" -> "table"
      [] tag = "tbody" -> "table-body"
      [] tag = "tr" -> "table-row"
      [] tag = "td" -> "table-cell"
      [] OTHER -> "paragraph"

inlineTags ==
    [b |-> "BOLD", code |-> "CODE", del |-> "STRIKETHROUGH", em |-> "ITALIC",
     i |-> "ITALIC", s |-> "STRIKETHROUGH", strike |-> "STRIKETHROUGH",
     strong |-> "BOLD", u |-> "UNDERLINE"]

boldValues == {"bold", "bolder", "500", "600", "700", "800", "900"}
notBoldValues == {"light", "lighter", "100", "200", "300", "400"}

\* The style set after the font-weight, the font-style and the
\* text-decoration of an element's style attribute are applied, in this order.
withFontWeight(style, fontWeight) ==
    IF fontWeight \in boldValues THEN style \cup {"BOLD"}
    ELSE IF fontWeight \in notBoldValues THEN style \ {"BOLD"}
    ELSE style
withFontStyle(style, fontStyle) ==
    IF fontStyle = "italic" THEN style \cup {"ITALIC"}
    ELSE IF fontStyle = "normal" THEN style \ {"ITALIC"}
    ELSE style
withTextDecoration(style, textDecoration) ==
    IF textDecoration = "underline" THEN style \cup {"UNDERLINE"}
    ELSE IF textDecoration = "line-through" THEN style \cup {"STRIKETHROUGH"}
    ELSE IF textDecoration = "none" THEN style \ {"UNDERLINE", "STRIKETHROUGH"}
    ELSE style

\* inlineTags[tag]: inlineTags is an object literal.
styleToCheck(tag) == getProperty(inlineTags, tag)

\* processInlineTag(tag, node, currentStyle): a tag for which inlineTags has
\* a truthy property adds that property; any other HTMLElement applies its
\* style attribute; any other node leaves the style as it is.
processInlineTag(tag, node, currentStyle) ==
    IF ~falsy(styleToCheck(tag))
    THEN currentStyle \cup {styleToCheck(tag)}
    ELSE IF node.isHTMLElement
    THEN withTextDecoration(
             withFontStyle(withFontWeight(currentStyle, node.style.fontWeight),
                           node.style.fontStyle),
             node.style.textDecoration)
    ELSE currentStyle

\* text.split('\r'): the segments between the delimiters, one more than
\* there are delimiters.
RECURSIVE split(_)
split(text) ==
    IF \A i \in 1..Len(text) : text[i] # CR
    THEN <<text>>
    ELSE LET i == CHOOSE i \in 1..Len(text) :
                      text[i] = CR /\ \A j \in 1..(i - 1) : text[j] # CR
         IN  <<SubSeq(text, 1, i - 1)>> \o split(SubSeq(text, i + 1, Len(text)))

\* segments.join('\r')
RECURSIVE join(_)
join(segments) ==
    IF Len(segments) = 1 THEN segments[1]
    ELSE segments[1] \o <<CR>> \o join(Tail(segments))

\* text.slice(-1): the last character, or the empty string.
lastIn(text) == IF text = <<>> THEN <<>> ELSE <<text[Len(text)]>>

\* lastInA === '\r' && firstInB === '\r'
touching(A, B) ==
    /\ lastIn(A.text) = <<CR>>
    /\ slice(B.text, 0, 1) = <<CR>>

\* joinChunks throws a TypeError when the type of a descriptor that is not
\* there is read: the last of A, or the first of B once A's last is a
\* paragraph.
joinChunksThrows(A, B) ==
    /\ touching(A, B)
    /\ \/ A.blocks = <<>>
       \/ A.blocks[Len(A.blocks)].type = "paragraph" /\ B.blocks = <<>>

\* A.text after the two conditionals of joinChunks: A.text.split('\r')[0]
\* when the chunks touch and A's last descriptor is a paragraph.
textOfA(A, B) ==
    IF touching(A, B) /\ A.blocks[Len(A.blocks)].type = "paragraph"
    THEN split(A.text)[1]
    ELSE A.text

\* A faulty variant of joinChunks: siblings are joined with no delimiter.
joinChunks_noDelimiter(A, B, isSibling, isUnstyled) ==
    Chunk(textOfA(A, B) \o B.text,
          A.inlines \o B.inlines,
          A.entities \o B.entities,
          IF isUnstyled THEN B.blocks ELSE A.blocks \o B.blocks,
          isUnstyled /\ B.shared)

\* joinChunks(A, B, rootNested, isSibling, isUnstyled); rootNested is not read.
joinChunks(A, B, isSibling, isUnstyled) ==
    Chunk(IF isSibling /\ ~isUnstyled
          THEN join(split(textOfA(A, B)) \o split(B.text))
          ELSE textOfA(A, B) \o B.text,
          A.inlines \o B.inlines,
          A.entities \o B.entities,
          IF isUnstyled THEN B.blocks ELSE A.blocks \o B.blocks,
          isUnstyled /\ B.shared)

\* Math.max(0, Math.min(MAX_DEPTH, depth))
clamp(depth) ==
    LET m == IF depth < MAX_DEPTH THEN depth ELSE MAX_DEPTH
    IN  IF m > 0 THEN m ELSE 0

\* getBlockDividerChunk(block, depth, parentKey), with the key generated.
getBlockDividerChunk(block, depth, parentKey, key) ==
    Chunk(<<CR>>, <<{}>>, <<0>>,
          <<RawBlock(clamp(depth), key, orDefault(parentKey, ""), block)>>,
          FALSE)

(* --------------------- HTML import: the pipeline ---------------------- *)

\* What genFragment hands back: a chunk and the number of keys generated so
\* far, or the error it threw.
Generated(chunk, kc) == [threw |-> "", chunk |-> chunk, keyCount |-> kc]
GenThrew(err, kc) == [threw |-> err, chunk |-> EMPTY_CHUNK_AtLoad, keyCount |-> kc]

isStructural(nodeName) ==
    nodeName \in {"ul", "ol", "li", "table", "tbody", "tr", "td"}

\* The chunk of a text node (text not empty) or of a br (text empty): the
\* style on every character, one paragraph descriptor at the depth passed.
leafChunk(text, inlineStyle, depth, parentKey, key) ==
    Chunk(text,
          [i \in 1..Len(text) |-> inlineStyle],
          [i \in 1..Len(text) |-> 0],
          <<RawBlock(depth, key, orDefault(parentKey, ""), "paragraph")>>,
          FALSE)

\* The chunk of an element before its children are visited: a copy of
\* EMPTY_CHUNK, joined with a divider chunk for a structural element.
dividedChunk(E, nodeName, depth, parentKey, key) ==
    IF isStructural(nodeName)
    THEN joinChunks(E,
                    getBlockDividerChunk(getBlockTypeForTag(nodeName),
                                         depth, parentKey, key),
                    FALSE, FALSE)
    ELSE E

\* genFragment(entityMap, node, inlineStyle, lastList, inBlock, blockTags,
\* depth, blockRenderMap, inEntity, parentKey) with EMPTY_CHUNK being E and kc
\* keys generated before. entityMap, lastList, inBlock, blockTags and
\* blockRenderMap are passed on and never read; inEntity is always undefined.
\* genChildren is its loop over the child nodes, from the i-th on.
RECURSIVE genFragment(_, _, _, _, _, _)
RECURSIVE genChildren(_, _, _, _, _, _, _, _, _)
genFragment(E, node, inlineStyle, depth, parentKey, kc) ==
    LET nodeName == node.nodeName
    IN  IF nodeName = "#text"
        THEN Generated(leafChunk(node.textContent, inlineStyle, depth, parentKey,
                                 generateRandomKey(kc)), kc + 1)
        ELSE IF nodeName = "br"
        THEN Generated(leafChunk(<<>>, inlineStyle, depth, parentKey,
                                 generateRandomKey(kc)), kc + 1)
        ELSE LET style == processInlineTag(nodeName, node, inlineStyle)
                 chunk == dividedChunk(E, nodeName, depth, parentKey,
                                       generateRandomKey(kc))
                 children == node.childNodes
                 isUnstyled == children # <<>> /\ children[1].nodeName = "span"
             IN  genChildren(E, children, 1, chunk, style, depth,
                             IF isStructural(nodeName)
                             THEN chunk.blocks[1].key ELSE parentKey,
                             isUnstyled,
                             IF isStructural(nodeName) THEN kc + 1 ELSE kc)

genChildren(E, children, i, chunk, inlineStyle, depth, parentKey, isUnstyled, kc) ==
    IF i > Len(children)
    THEN Generated(chunk, kc)
    ELSE LET g == genFragment(E, children[i], inlineStyle, depth, parentKey, kc)
         IN  IF g.threw # "" THEN g
             ELSE IF joinChunksThrows(chunk, g.chunk)
             THEN GenThrew("TypeError", g.keyCount)
             ELSE genChildren(E, children, i + 1,
                              joinChunks(chunk, g.chunk, i > 1, isUnstyled),
                              inlineStyle, depth, parentKey, isUnstyled,
                              g.keyCount)

\* The descriptor getChunkForHTML pushes when it saw no block: a spread of
\* EMPTY_CHUNK with type and depth, so with no key and no parentKey.
pushedBlock == RawBlock(0, undefined, undefined, "paragraph")

\* getChunkForHTML(html, DOMBuilder, blockRenderMap, entityMap): the chunk of
\* the body, generated at depth -1, and EMPTY_CHUNK as the call leaves it:
\* the push goes into EMPTY_CHUNK's own array when the chunk still shares it.
getChunkForHTML(E, string) ==
    LET g == genFragment(E, DOMBuilder(trim(string)), {}, -1, undefined, 0)
        push == g.threw = "" /\ g.chunk.blocks = <<>>
    IN  [threw |-> g.threw,
         chunk |-> IF push THEN [g.chunk EXCEPT !.blocks = <<pushedBlock>>]
                   ELSE g.chunk,
         keyCount |-> g.keyCount,
         EMPTY_CHUNK |-> IF push /\ g.chunk.shared
                         THEN [E EXCEPT !.blocks = <<pushedBlock>>]
                         ELSE E]

\* decorateCharacterList(config): a config with a text that is not empty
\* and a characterList that is missing or undefined gets one
\* CharacterMetadata.EMPTY for every character; undefined stays undefined.
decorateCharacterList(config) ==
    IF isUndefined(config) THEN config
    ELSE IF /\ "text" \in DOMAIN config
            /\ ~isUndefined(config.text)
            /\ config.text # <<>>
            /\ \/ "characterList" \notin DOMAIN config
               \/ isUndefined(config.characterList)
    THEN [f \in DOMAIN config \cup {"characterList"} |->
             IF f = "characterList"
             THEN [i \in 1..Len(config.text) |-> CharacterMetadata({}, 0)]
             ELSE config[f]]
    ELSE config

\* new ContentBlock(config): the default record with the fields of the
\* decorated config, the default record for no config.
ContentBlock(config) ==
    IF isUndefined(config) THEN defaultRecord
    ELSE merge(defaultRecord, decorateCharacterList(config))

\* The reduce of convertChunkToContentBlocks from the segment `index`
\* (counted from 1) on, `start` being the offset into inlines and entities.
\* sanitizeDraftText removes '\r', of which a segment has none. prevSibling
\* and nextSibling are not fields of the record.
RECURSIVE convertSegments(_, _, _, _, _)
convertSegments(newArr, index, start, chunk, kc) ==
    IF index > Len(newArr) THEN <<>>
    ELSE
    LET textBlock == newArr[index]
        end == start + (IF Len(textBlock) > 0 THEN Len(textBlock) ELSE 1)
        inlines == slice(chunk.inlines, start, end)
        entities == slice(chunk.entities, start, end)
        characterList ==
            [i \in 1..Len(inlines) |-> CharacterMetadata(inlines[i], entities[i])]
        hasBlock == index <= Len(chunk.blocks)
        block == chunk.blocks[index]
        generates == ~hasBlock \/ orDefault(block.key, "") = ""
        blockNode ==
            IF hasBlock
            THEN ContentBlock([key |-> orDefault(block.key, generateRandomKey(kc)),
                               parentKey |-> block.parentKey,
                               type |-> block.type,
                               depth |-> block.depth,
                               text |-> textBlock,
                               characterList |-> characterList])
            ELSE ContentBlock([key |-> generateRandomKey(kc),
                               parentKey |-> "",
                               type |-> "paragraph",
                               depth |-> 0,
                               text |-> <<>>,
                               characterList |-> <<>>])
    IN  <<blockNode>> \o convertSegments(newArr, index + 1, end, chunk,
                                         IF generates THEN kc + 1 ELSE kc)

\* convertChunkToContentBlocks(chunk): null for a chunk with no text.
convertChunkToContentBlocks(chunk, kc) ==
    IF chunk.text = <<>>
    THEN [isNull |-> TRUE, contentBlocks |-> <<>>]
    ELSE [isNull |-> FALSE,
          contentBlocks |-> convertSegments(split(chunk.text), 1, 0, chunk, kc)]

\* convertFromHTMLtoContentBlocks(html) with EMPTY_CHUNK being E: the error
\* thrown, or whether contentBlocks is null, the content blocks, the chunk
\* they were made from, and EMPTY_CHUNK after the call.
convertFromHTMLtoContentBlocks(E, string) ==
    LET chunkData == getChunkForHTML(E, string)
        converted == convertChunkToContentBlocks(chunkData.chunk, chunkData.keyCount)
    IN  IF chunkData.threw # ""
        THEN [threw |-> chunkData.threw, isNull |-> FALSE, contentBlocks |-> <<>>,
              chunk |-> chunkData.chunk, EMPTY_CHUNK |-> E]
        ELSE [threw |-> "", isNull |-> converted.isNull,
              contentBlocks |-> converted.contentBlocks,
              chunk |-> chunkData.chunk, EMPTY_CHUNK |-> chunkData.EMPTY_CHUNK]

\* No import has been called yet.
NothingImported ==
    [called |-> FALSE, html |-> HTMLString(0, <<>>), before |-> EMPTY_CHUNK_AtLoad,
     threw |-> "", isNull |-> FALSE, contentBlocks |-> <<>>,
     chunk |-> EMPTY_CHUNK_AtLoad]

(* ------------------- the browser's Selection object ------------------- *)

\* Document order of positions <<index, offset>>.
Before(P, Q) == P[1] < Q[1] \/ (P[1] = Q[1] /\ P[2] < Q[2])

\* A point of the rendered document: a rendering unit's node (numbered in
\* document order) and an offset in it. No node is numbered 0; the document
\* node itself, which holds no text of the editor, has a negative number.
NoPoint == <<0, 0>>
DocumentPoint == <<0 - 1, 0>>

\* A Selection: anchor and focus (NoPoint when it has no range), and whether
\* getRangeAt(0).getClientRects() is not empty.
NativeSelection(anchor, focus, rects) ==
    [anchor |-> anchor, focus |-> focus, rects |-> rects]
NoRanges == NativeSelection(NoPoint, NoPoint, FALSE)

rangeCount(sel) == IF sel.anchor = NoPoint THEN 0 ELSE 1

\* Selection.type
typeOf(sel) ==
    IF rangeCount(sel) = 0 THEN "None"
    ELSE IF sel.anchor = sel.focus THEN "Caret" ELSE "Range"

\* The boundary points of getRangeAt(0): the earlier and the later of anchor
\* and focus.
startOf(sel) == IF Before(sel.focus, sel.anchor) THEN sel.focus ELSE sel.anchor
endOf(sel) == IF Before(sel.focus, sel.anchor) THEN sel.anchor ELSE sel.focus

\* rangeCount > 0 and the first range has client rects.
holdsValidRange(sel) == rangeCount(sel) > 0 /\ sel.rects

\* The state a call of setDraftEditorSelection works on: the Selection, the
\* native operations performed so far in the pass, the error thrown.
Machine(sel, log, threw) == [sel |-> sel, log |-> log, threw |-> threw]

\* One native operation, as logged: its name, the point it was given,
\* whether the Selection held a valid range when it ran, whether it threw.
Op(name, point, m, threw) ==
    [op |-> name, point |-> point, valid |-> holdsValidRange(m.sel),
     threw |-> threw]

\* Nothing runs once an error is on its way to the caller.
then(m, next) == IF m.threw # "" THEN m ELSE next

\* Selection.removeAllRanges()
removeAllRanges(m) ==
    then(m, Machine(NoRanges, Append(m.log, Op("removeAllRanges", NoPoint, m, FALSE)), ""))

\* Selection.addRange(range) for a range from start to end: the range becomes
\* the selection when there is none; a browser of the IE family replaces the
\* range it has, any other browser ignores the call.
addRange(m, start, end, env, rects) ==
    then(m,
         Machine(IF rangeCount(m.sel) = 0 \/ env.isIE
                 THEN NativeSelection(start, end, rects)
                 ELSE m.sel,
                 Append(m.log, Op("addRange", start, m, FALSE)), ""))

\* Selection.extend(node, offset): the focus moves, the anchor stays; or the
\* call throws.
extend(m, point, throws, rects) ==
    then(m,
         IF throws
         THEN Machine(m.sel, Append(m.log, Op("extend", point, m, TRUE)), "Error")
         ELSE Machine(NativeSelection(m.sel.anchor, point, rects),
                      Append(m.log, Op("extend", point, m, FALSE)), ""))

\* getRangeAt(0).setEnd(node, offset) on the live range of the selection: a
\* point before the start of the range becomes its start too.
setEnd(m, point, rects) ==
    then(m,
         Machine(IF Before(point, startOf(m.sel))
                 THEN NativeSelection(point, point, rects)
                 ELSE NativeSelection(startOf(m.sel), point, rects),
                 Append(m.log, Op("setEnd", point, m, FALSE)), ""))

(* ----------------------- setDraftEditorSelection ---------------------- *)

\* protectedRemoveAllRanges: both branches remove the ranges of the one
\* Selection object of the window.
protectedRemoveAllRanges(m) == removeAllRanges(m)

\* resetIESelection: the ranges are removed and an empty range of the
\* document is added; an error of that addRange is caught.
resetIESelection(m, env) ==
    LET entered == then(m, Machine(m.sel, Append(m.log,
                                   Op("resetIESelection", NoPoint, m, FALSE)), ""))
    IN  addRange(removeAllRanges(entered), DocumentPoint, DocumentPoint, env, FALSE)

\* A faulty variant of isIECrashes: the ranges of the selection are not
\* looked at.
isIECrashes_anyRange(sel, start, end) == start[2] = end[2]

\* isIECrashes of protectedAddRage for a range from start to end.
isIECrashes(sel, start, end) ==
    /\ rangeCount(sel) = 0 \/ ~sel.rects
    /\ start[2] = end[2]
    /\ sel.anchor = NoPoint /\ sel.focus = NoPoint

\* protectedAddRage(selection, range)
protectedAddRage(m, start, end, env, rects) ==
    IF env.isIE /\ isIECrashes(m.sel, start, end)
    THEN addRange(resetIESelection(m, env), start, end, env, rects)
    ELSE addRange(m, start, end, env, rects)

\* addPointToSelection(selection, node, offset, selectionState)
addPointToSelection(m, point, env, rects) ==
    protectedAddRage(m, point, point, env, rects)

\* A faulty variant of addFocusToSelection: an error of extend is caught and
\* the call goes on.
addFocusToSelection_swallows(m, point, env, throws, rects) ==
    IF env.extend /\ env.focused
    THEN IF typeOf(m.sel) # "None"
         THEN Machine(extend(m, point, throws, rects).sel,
                      extend(m, point, throws, rects).log, "")
         ELSE m
    ELSE IF rangeCount(m.sel) > 0
         THEN protectedAddRage(setEnd(m, point, rects), startOf(setEnd(m, point, rects).sel),
                               endOf(setEnd(m, point, rects).sel), env, rects)
         ELSE m

\* addFocusToSelection(selection, node, offset, selectionState): extend when
\* the browser has it and the active element contains the node; or else the
\* end of the existing range is moved and a clone of the range added.
addFocusToSelection(m, point, env, throws, rects) ==
    IF env.extend /\ env.focused
    THEN IF typeOf(m.sel) # "None"
         THEN extend(m, point, throws, rects)
         ELSE m
    ELSE IF rangeCount(m.sel) > 0
         THEN LET moved == setEnd(m, point, rects)
              IN  protectedAddRage(moved, startOf(moved.sel), endOf(moved.sel),
                                   env, rects)
         ELSE m

\* A rendering unit: its node, the key of its block, the offsets of the
\* block's text it renders.
Unit(node, blockKey, nodeStart, nodeEnd) ==
    [node |-> node, blockKey |-> blockKey, nodeStart |-> nodeStart,
     nodeEnd |-> nodeEnd]

\* The selection setDraftEditorSelection works with: anchor and focus swapped
\* and not backward when the browser has no extend.
effectiveSelection(selectionState, env) ==
    IF ~env.extend /\ selectionState.isBackward
    THEN SelectionState(selectionState.focusKey, selectionState.focusOffset,
                        selectionState.anchorKey, selectionState.anchorOffset, FALSE)
    ELSE selectionState

hasAnchorIn(sel, unit) ==
    /\ sel.anchorKey = unit.blockKey
    /\ unit.nodeStart <= sel.anchorOffset
    /\ unit.nodeEnd >= sel.anchorOffset

hasFocusIn(sel, unit) ==
    /\ sel.focusKey = unit.blockKey
    /\ unit.nodeStart <= sel.focusOffset
    /\ unit.nodeEnd >= sel.focusOffset

\* A faulty variant of the forward branch: the anchor is not placed, the
\* selection found is extended to the focus.
forwardBranch_anchorNotPlaced(m, sel, unit, env, throws, rects) ==
    IF hasFocusIn(sel, unit)
    THEN addFocusToSelection(m, <<unit.node, sel.focusOffset - unit.nodeStart>>,
                             env, throws, rects)
    ELSE m

\* The branch of a selection that is not backward: the anchor is placed, then
\* the selection is extended to the focus.
forwardBranch(m, sel, unit, env, throws, rects) ==
    LET anchorPoint == <<unit.node, sel.anchorOffset - unit.nodeStart>>
        focusPoint == <<unit.node, sel.focusOffset - unit.nodeStart>>
        placed == IF hasAnchorIn(sel, unit)
                  THEN addPointToSelection(protectedRemoveAllRanges(m), anchorPoint,
                                           env, rects)
                  ELSE m
    IN  IF hasFocusIn(sel, unit)
        THEN addFocusToSelection(placed, focusPoint, env, throws, rects)
        ELSE placed

\* The branch of a backward selection: a point is put at the focus; at the
\* anchor the focus of the native selection is kept, the range is reset to
\* the anchor and extended back to the kept focus.
backwardBranch(m, sel, unit, env, throws, rects) ==
    LET anchorPoint == <<unit.node, sel.anchorOffset - unit.nodeStart>>
        focusPoint == <<unit.node, sel.focusOffset - unit.nodeStart>>
        pointed == IF hasFocusIn(sel, unit)
                   THEN addPointToSelection(protectedRemoveAllRanges(m), focusPoint,
                                            env, rects)
                   ELSE m
        storedFocus == pointed.sel.focus
        reset == addPointToSelection(protectedRemoveAllRanges(pointed), anchorPoint,
                                     env, rects)
    IN  IF hasAnchorIn(sel, unit)
        THEN IF storedFocus # NoPoint
             THEN addFocusToSelection(reset, storedFocus, env, throws, rects)
             ELSE reset
        ELSE pointed

\* setDraftEditorSelection(selectionState, node, blockKey, nodeStart, nodeEnd)
\* on the machine m; `throws` and `rects` are what the browser does in this
\* call: whether extend throws, whether the range it is left with has client
\* rects.
setDraftEditorSelection(m, selectionState, unit, env, throws, rects) ==
    LET sel == effectiveSelection(selectionState, env)
        anchorPoint == <<unit.node, sel.anchorOffset - unit.nodeStart>>
        focusPoint == <<unit.node, sel.focusOffset - unit.nodeStart>>
    IN  IF ~env.attached THEN m
        ELSE IF hasAnchorIn(sel, unit) /\ hasFocusIn(sel, unit)
        THEN addFocusToSelection(
                 addPointToSelection(protectedRemoveAllRanges(m), anchorPoint,
                                     env, rects),
                 focusPoint, env, throws, rects)
        ELSE IF ~sel.isBackward
        THEN forwardBranch(m, sel, unit, env, throws, rects)
        ELSE backwardBranch(m, sel, unit, env, throws, rects)

\* No pass has been made: nothing is selected, nothing was called.
Browser(hasExtend, isIE, focused, attached) ==
    [extend |-> hasExtend, isIE |-> isIE, focused |-> focused,
     attached |-> attached]
NoPass ==
    [selectionState |-> SelectionState("", 0, "", 0, FALSE), units |-> <<>>,
     calls |-> 0, log |-> <<>>, threw |-> "", before |-> NoRanges]
SelectionIdle ==
    /\ browser = Browser(TRUE, FALSE, TRUE, TRUE)
    /\ nativeSelection = NoRanges
    /\ pass = NoPass

(* -------------------------- DraftEditorContents ----------------------- *)

\* A ContentState as the view reads it: what it is (its identity, as !== of
\* two contents compares it) and its block map.
Content(id, blockMap) == [id |-> id, blockMap |-> blockMap]

\* An EditorState as the view reads it; nativelyRenderedContent is the
\* identity of a content, or 0 for null.
EditorState(id, content, directionMap, hasFocus, native, composing, decorator, force) ==
    [id |-> id, currentContent |-> content, directionMap |-> directionMap,
     hasFocus |-> hasFocus, nativelyRenderedContent |-> native,
     inCompositionMode |-> composing, decorator |-> decorator,
     forceSelection |-> force]

\* null, where an EditorState or a tree is expected.
NoEditorState == EditorState(0, Content(0, <<>>), 0, FALSE, 0, FALSE, 0, FALSE)
NoTree == {}

\* content.getBlockChildren(key): the blocks whose parentKey is key, in order.
RECURSIVE getBlockChildren(_, _)
getBlockChildren(blockMap, key) ==
    IF blockMap = <<>> THEN <<>>
    ELSE (IF Head(blockMap).parentKey = key THEN <<Head(blockMap)>> ELSE <<>>)
         \o getBlockChildren(Tail(blockMap), key)

\* content.getBlockDescendants(): for '__ROOT__' and for every block key the
\* first-level blocks under it, the children of the key in the order of the
\* content, as a set of <<key, value>> entries.
getBlockDescendants(content) ==
    {<<"__ROOT__", [firstLevelBlocks |-> getBlockChildren(content.blockMap, "")]>>}
    \cup {<<content.blockMap[i].key,
            [firstLevelBlocks |->
                getBlockChildren(content.blockMap, content.blockMap[i].key)]>> :
          i \in 1..Len(content.blockMap)}

\* block.toJS(): the plain object of a block record, its character list an
\* array of plain objects.
blockToJS(block) ==
    [key |-> block.key, type |-> block.type, text |-> block.text,
     characterList |->
        [i \in 1..Len(block.characterList) |->
            [style |-> block.characterList[i].style,
             entity |-> block.characterList[i].entity]],
     depth |-> block.depth, data |-> block.data, parentKey |-> block.parentKey]

\* value.toJS() of an entry of the tree: the ordered sequence of first-level
\* blocks becomes the array of their plain objects, in the same order.
toJS(value) ==
    [firstLevelBlocks |->
        [i \in 1..Len(value.firstLevelBlocks) |->
            blockToJS(value.firstLevelBlocks[i])]]

\* fastDeepEqual(a, b) of two plain values: arrays of one length with equal
\* elements at every index, objects of the same keys with equal values.
fastDeepEqual(a, b) == a = b

\* The forEach of getBlockMapTree: the entry of the tree before is kept for a
\* key whose value is deep-equal to it.
keepEqualEntries(tree, prevBlockMapTree) ==
    {IF /\ entry[1] # "__ROOT__"
        /\ \E prev \in prevBlockMapTree :
              prev[1] = entry[1] /\ fastDeepEqual(toJS(entry[2]), toJS(prev[2]))
     THEN CHOOSE prev \in prevBlockMapTree :
              prev[1] = entry[1] /\ fastDeepEqual(toJS(entry[2]), toJS(prev[2]))
     ELSE entry : entry \in tree}

\* The instance: its props, its two fields, what its last render handed to
\* DraftEditorBlocks (contentState and blockMapTree), whether an update was
\* skipped since the last render, and the call React makes next on it:
\* "render" after the props of an accepted update are set, "first render"
\* after it is constructed, "componentDidUpdate" after the render of an
\* update, "none" when it waits for props.
Instance(mounted, editorState, prevEditorState, blockMapTree, rendered, skipped, next) ==
    [mounted |-> mounted, props |-> [editorState |-> editorState],
     prevEditorState |-> prevEditorState, blockMapTree |-> blockMapTree,
     rendered |-> rendered, skipped |-> skipped, next |-> next]

\* What a render handed on, with the content _prevEditorState held when it
\* ran, whether an update was skipped before it and whether the tree was not
\* computed in it.
Rendered(content, blockMapTree, before, afterSkip, cached) ==
    [contentState |-> content, blockMapTree |-> blockMapTree,
     before |-> before, afterSkip |-> afterSkip, cached |-> cached]
NothingRendered == Rendered(Content(0, <<>>), NoTree, Content(0, <<>>), FALSE, FALSE)

Unmounted ==
    Instance(FALSE, NoEditorState, NoEditorState, NoTree, NothingRendered, FALSE,
             "none")
ComponentIdle == component = Unmounted

\* shouldComponentUpdate(nextProps)
shouldComponentUpdate(this, nextProps) ==
    LET prevEditorState == this.props.editorState
        nextEditorState == nextProps.editorState
        wasComposing == prevEditorState.inCompositionMode
        nowComposing == nextEditorState.inCompositionMode
    IN  IF prevEditorState.directionMap # nextEditorState.directionMap THEN TRUE
        ELSE IF prevEditorState.hasFocus # nextEditorState.hasFocus THEN TRUE
        ELSE IF \/ prevEditorState = nextEditorState
                \/ /\ nextEditorState.nativelyRenderedContent # 0
                   /\ nextEditorState.currentContent.id
                        = nextEditorState.nativelyRenderedContent
                \/ wasComposing /\ nowComposing
        THEN FALSE
        ELSE \/ wasComposing # nowComposing
             \/ prevEditorState.currentContent # nextEditorState.currentContent
             \/ prevEditorState.decorator # nextEditorState.decorator
             \/ nextEditorState.forceSelection

\* A faulty variant of getBlockMapTree: once a state was rendered the tree is
\* computed no more.
getBlockMapTree_neverRecomputed(this) ==
    IF this.prevEditorState = NoEditorState
    THEN [this EXCEPT !.blockMapTree =
             getBlockDescendants(this.props.editorState.currentContent)]
    ELSE this

\* getBlockMapTree(): the instance with its _blockMapTree as the call leaves
\* it, which is the tree returned.
getBlockMapTree(this) ==
    LET content == this.props.editorState.currentContent
        first == IF this.prevEditorState = NoEditorState
                 THEN [this EXCEPT !.blockMapTree = getBlockDescendants(content)]
                 ELSE this
        prevContent == first.prevEditorState.currentContent
    IN  IF /\ first.prevEditorState # NoEditorState
           /\ first.blockMapTree # NoTree
           /\ content # prevContent
        THEN [first EXCEPT !.blockMapTree =
                 keepEqualEntries(getBlockDescendants(content), first.blockMapTree)]
        ELSE first

\* render(): content and the tree of getBlockMapTree go to DraftEditorBlocks.
render(this) ==
    LET got == getBlockMapTree(this)
    IN  [got EXCEPT !.rendered =
            Rendered(this.props.editorState.currentContent, got.blockMapTree,
                     this.prevEditorState.currentContent, this.skipped,
                     /\ this.prevEditorState # NoEditorState
                     /\ this.props.editorState.currentContent
                          = this.prevEditorState.currentContent),
         !.skipped = FALSE]

\* componentDidUpdate()
componentDidUpdate(this) == [this EXCEPT !.prevEditorState = this.props.editorState]

(* --------------------------- initial states --------------------------- *)

\* The text and the character list of the block numbered i.
TextOf(i) == [j \in 1..TextLen |-> CharAt(i, j)]
CharsOf(i) == [j \in 1..TextLen |-> MetaAt(i, j)]

\* The parent of every block of an n-block forest: 0 for a root, or the
\* number of an earlier block.
ParentVectors(n) == {p \in [1..n -> 0..(n - 1)] : \A i \in 1..n : p[i] < i}

\* An initial document: n blocks keyed DocKeys[1..n], parents by p.
Document(n, p) ==
    [i \in 1..n |->
        merge(defaultRecord,
              [key |-> DocKeys[i],
               parentKey |-> IF p[i] = 0 THEN "" ELSE DocKeys[p[i]],
               text |-> TextOf(i),
               characterList |-> CharsOf(i),
               data |-> {DocKeys[i]}])]

Documents ==
    {d \in UNION {{Document(n, p) : p \in ParentVectors(n)} : n \in 1..MaxInitBlocks} :
        WellFormed(d)}

\* A fragment: n blocks keyed FragKeys[1..n], parents by p, the first block of
\* type firstType. With `collide` its last block has the key of the document's
\* first block (a fragment copied from the document it is pasted into).
FragmentKey(n, i, collide) == IF collide /\ i = n THEN DocKeys[1] ELSE FragKeys[i]

Fragment(n, p, firstType, collide) ==
    [i \in 1..n |->
        merge(defaultRecord,
              [key |-> FragmentKey(n, i, collide),
               parentKey |-> IF p[i] = 0 THEN "" ELSE FragmentKey(n, p[i], collide),
               type |-> IF i = 1 THEN firstType ELSE "unstyled",
               text |-> TextOf(MaxInitBlocks + 1 + i),
               characterList |-> CharsOf(MaxInitBlocks + 1 + i),
               data |-> {"pasted"}])]

FirstTypes == {"snippet", "paragraph", "unstyled"}

Fragments ==
    {f \in UNION {{Fragment(n, p, t, c) :
                      p \in ParentVectors(n), t \in FirstTypes,
                      c \in IF n = 1 THEN {FALSE} ELSE BOOLEAN} :
                  n \in 1..MaxFrag} :
        WellFormed(f)}

\* The positions of a document: a block and an offset within its text.
Positions(bm) ==
    {<<i, o>> : i \in 1..Len(bm), o \in 0..TextLen}

\* The valid selections of a document: collapsed at any position, or ranging
\* from the start of the first block to a later position, in either direction.
Selections(bm) ==
    {SelectionState(bm[P[1]].key, P[2], bm[P[1]].key, P[2], FALSE) : P \in Positions(bm)}
    \cup {SelectionState(bm[1].key, 0, bm[Q[1]].key, Q[2], FALSE) :
            Q \in {Q \in Positions(bm) : Before(<<1, 0>>, Q)}}
    \cup {SelectionState(bm[Q[1]].key, Q[2], bm[1].key, 0, TRUE) :
            Q \in {Q \in Positions(bm) : Before(<<1, 0>>, Q)}}

Performed(op, res, cs, sel, kc) ==
    [op |-> op, threw |-> res.threw, blockMap |-> cs.blockMap,
     selection |-> sel, keyCount |-> kc]

Init ==
    /\ \E d \in Documents : \E sel \in Selections(d) :
          /\ contentState = [blockMap |-> d, selectionBefore |-> sel,
                             selectionAfter |-> sel]
          /\ selection = sel
          /\ last = [op |-> "none", threw |-> "", blockMap |-> d,
                     selection |-> sel, keyCount |-> 0]
    /\ fragment \in Fragments
    /\ keyCount = 0
    /\ ops = 0
    /\ html = HTMLString(0, <<>>)
    /\ EMPTY_CHUNK = EMPTY_CHUNK_AtLoad
    /\ imported = NothingImported
    /\ SelectionIdle
    /\ ComponentIdle

(* ------------------------------ actions ------------------------------- *)

\* A transaction that throws returns nothing: the editor keeps its content
\* state and its selection, and the error ends the run. One that returns
\* gives the editor its new content state, and the selection it computed is
\* the one passed to the next transaction.
Apply(op, res) ==
    /\ last' = Performed(op, res, contentState, selection, keyCount)
    /\ contentState' = IF res.threw = "" THEN res.contentState ELSE contentState
    /\ selection' = IF res.threw = "" THEN res.contentState.selectionAfter ELSE selection
    /\ keyCount' = res.keyCount
    /\ ops' = ops + 1
    /\ UNCHANGED fragment
    /\ UNCHANGED importVars
    /\ UNCHANGED selectionVars
    /\ UNCHANGED component

SplitBlock ==
    /\ ops < MaxOps
    /\ last.threw = ""
    /\ Apply("split", splitNestedBlockInContentState(contentState, selection, keyCount))

InsertFragment ==
    /\ ops < MaxOps
    /\ last.threw = ""
    /\ Apply("insert",
             insertFragmentIntoContentState(contentState, selection, fragment, keyCount))

Next == SplitBlock \/ InsertFragment

Spec == Init /\ [][Next]_vars

(* ------------------------ the HTML import alone ----------------------- *)

\* The elements of the imported documents: div and span, and with them the
\* seven structural elements. A br is an element that has no children.
PlainNames == {"div", "span"}
ElementNames == PlainNames \cup {"ul", "ol", "li", "table", "tbody", "tr", "td"}

\* The elements of the given names with no style attribute and no child.
Unstyled(names) == {Element(e, <<>>) : e \in names}

\* The trees of exactly n nodes and the forests (sequences of sibling trees)
\* of exactly n nodes whose elements are those of `elements` (childless
\* elements) given children; the text of the text nodes is filled in by
\* numbered.
RECURSIVE TreesOf(_, _)
RECURSIVE ForestsOf(_, _)
TreesOf(elements, n) ==
    IF n = 1
    THEN {TextNode(<<>>), Element("br", <<>>)} \cup elements
    ELSE {[e EXCEPT !.childNodes = f] :
             e \in elements, f \in ForestsOf(elements, n - 1)}

ForestsOf(elements, n) ==
    IF n = 0 THEN {<<>>}
    ELSE UNION {{<<t>> \o f : t \in TreesOf(elements, k),
                              f \in ForestsOf(elements, n - k)} : k \in 1..n}

\* The number of text nodes of a forest.
RECURSIVE textNodes(_)
textNodes(forest) ==
    IF forest = <<>> THEN 0
    ELSE (IF Head(forest).nodeName = "#text" THEN 1 ELSE 0)
         + textNodes(Head(forest).childNodes) + textNodes(Tail(forest))

\* The forest with the k-th text node in document order, counted from
\* `from` + 1, holding the text TextOf(k): no two text nodes share a character.
RECURSIVE numbered(_, _)
numbered(forest, from) ==
    IF forest = <<>> THEN <<>>
    ELSE LET node == Head(forest)
             here == IF node.nodeName = "#text" THEN 1 ELSE 0
             first == IF here = 1
                      THEN TextNode(TextOf(from + 1))
                      ELSE [node EXCEPT
                              !.childNodes = numbered(node.childNodes, from)]
         IN  <<first>> \o numbered(Tail(forest),
                                   from + here + textNodes(node.childNodes))

\* The HTML strings imported: the markup of every forest of at most n nodes
\* with elements of `elements`, the empty string among them.
HTMLStrings(elements, n) ==
    {HTMLString(0, numbered(f, 0)) :
        f \in UNION {ForestsOf(elements, k) : k \in 0..n}}

\* What the last import was called with and what it gave.
Imported(string, before, res) ==
    [called |-> TRUE, html |-> string, before |-> before, threw |-> res.threw,
     isNull |-> res.isNull, contentBlocks |-> res.contentBlocks,
     chunk |-> res.chunk]

\* No transaction is made: one empty block, the caret in it.
EditorIdle ==
    /\ LET d == Document(1, <<0>>)
           sel == SelectionState(d[1].key, 0, d[1].key, 0, FALSE)
       IN  /\ contentState = [blockMap |-> d, selectionBefore |-> sel,
                              selectionAfter |-> sel]
           /\ selection = sel
           /\ last = [op |-> "none", threw |-> "", blockMap |-> d,
                      selection |-> sel, keyCount |-> 0]
    /\ fragment = Fragment(1, <<0>>, "unstyled", FALSE)
    /\ keyCount = 0
    /\ ops = 0

\* The module is loaded, `strings` are the strings that may be held for
\* import, and the editor is left alone.
InitImportOf(strings) ==
    /\ html \in strings
    /\ EMPTY_CHUNK = EMPTY_CHUNK_AtLoad
    /\ imported = NothingImported
    /\ SelectionIdle
    /\ ComponentIdle
    /\ EditorIdle

\* One call of convertFromHTMLtoContentBlocks: the caller gets the result (or
\* the error), and EMPTY_CHUNK stays as the call left it.
Import(string) ==
    LET res == convertFromHTMLtoContentBlocks(EMPTY_CHUNK, string)
    IN  /\ imported' = Imported(string, EMPTY_CHUNK, res)
        /\ EMPTY_CHUNK' = res.EMPTY_CHUNK
        /\ UNCHANGED html
        /\ UNCHANGED editorVars
        /\ UNCHANGED selectionVars
        /\ UNCHANGED component

\* The held string is imported.
ImportHTML == Import(html)

\* A string of white space only, or the empty string, is imported.
ImportBlank == \E blank \in 0..MaxBlank : Import(HTMLString(blank, <<>>))

NextImport == ImportHTML \/ ImportBlank

\* Imports of documents of every element.
InitImport == InitImportOf(HTMLStrings(Unstyled(ElementNames), MaxNodes))
SpecImport == InitImport /\ [][NextImport]_vars

\* Imports of documents with no structural element: no tag that maps to a
\* block type other than paragraph.
InitPlain == InitImportOf(HTMLStrings(Unstyled(PlainNames), MaxPlainNodes))
SpecPlain == InitPlain /\ [][NextImport]_vars

\* Imports of documents of inline elements: the tags b, em and u, and a span
\* whose style attribute takes back the three styles.
InlineElements ==
    Unstyled({"b", "em", "u"})
    \cup {StyledElement("span", CSSStyle("300", "normal", "none"), <<>>)}
InitStyles == InitImportOf(HTMLStrings(InlineElements, MaxStyledNodes))
SpecStyles == InitStyles /\ [][NextImport]_vars

\* Imports of documents of lists: ul, the span that makes its parent join
\* its children as unstyled, text and br.
InitLists == InitImportOf(HTMLStrings(Unstyled({"ul", "span"}), MaxListNodes))
SpecLists == InitLists /\ [][NextImport]_vars

(* --------------------- the selection reconciliation ------------------- *)

\* The most leaves a block is rendered in.
MaxLeaves == 2

\* The rendering units of two blocks of TextLen characters, each rendered in
\* `leaves` leaves, in document order: leaf i of a block renders the offsets
\* i-1 to i, the last leaf the rest of the text.
UnitsOf(leaves) ==
    [n \in 1..(2 * leaves) |->
        LET block == ((n - 1) \div leaves) + 1
            i == ((n - 1) % leaves) + 1
        IN  Unit(n, DocKeys[block], i - 1, IF i = leaves THEN TextLen ELSE i)]

\* The selections over the two blocks: any anchor, any focus, backward when
\* the focus is before the anchor.
PassSelections ==
    {SelectionState(DocKeys[P[1]], P[2], DocKeys[Q[1]], Q[2], Before(Q, P)) :
        P \in (1..2) \X (0..TextLen), Q \in (1..2) \X (0..TextLen)}

\* The browsers: with or without Selection.extend, of the IE family or not,
\* the active element inside the editor or not; and one whose document does
\* not hold the nodes.
Browsers ==
    {Browser(e, ie, f, TRUE) : e \in BOOLEAN, ie \in BOOLEAN, f \in BOOLEAN}
    \cup {Browser(TRUE, FALSE, TRUE, FALSE)}

\* What the native selection is when the pass starts: nothing, a caret, a
\* range in either direction.
SelectionsFound ==
    {NoRanges, NativeSelection(<<1, 0>>, <<1, 0>>, TRUE),
     NativeSelection(<<1, 0>>, <<1, 0>>, FALSE),
     NativeSelection(<<1, 0>>, <<2, 1>>, TRUE),
     NativeSelection(<<2, 1>>, <<1, 0>>, TRUE)}

InitSelection ==
    /\ EditorIdle
    /\ ComponentIdle
    /\ html = HTMLString(0, <<>>)
    /\ EMPTY_CHUNK = EMPTY_CHUNK_AtLoad
    /\ imported = NothingImported
    /\ browser \in Browsers
    /\ nativeSelection \in SelectionsFound
    /\ \E sel \in PassSelections : \E leaves \in 1..MaxLeaves :
          pass = [selectionState |-> sel, units |-> UnitsOf(leaves), calls |-> 0,
                  log |-> <<>>, threw |-> "", before |-> nativeSelection]

\* The next leaf of the pass calls setDraftEditorSelection; an error thrown
\* ends the pass.
Reconcile ==
    /\ pass.calls < Len(pass.units)
    /\ pass.threw = ""
    /\ \E throws \in BOOLEAN : \E rects \in BOOLEAN :
          LET m == setDraftEditorSelection(
                       Machine(nativeSelection, pass.log, ""), pass.selectionState,
                       pass.units[pass.calls + 1], browser, throws, rects)
          IN  /\ nativeSelection' = m.sel
              /\ pass' = [pass EXCEPT !.calls = pass.calls + 1, !.log = m.log,
                                      !.threw = m.threw]
    /\ UNCHANGED browser
    /\ UNCHANGED editorVars
    /\ UNCHANGED importVars
    /\ UNCHANGED component

NextSelection == Reconcile
SpecSelection == InitSelection /\ [][NextSelection]_vars

(* ----------------------- the contents component ---------------------- *)

\* The number of ContentState objects the editor states hold.
MaxContents == 3

\* The block maps of the contents: a block with two children, the same with
\* the two children in the other order, and one block alone.
BlockMapOf(n) ==
    LET family == Document(3, <<0, 1, 1>>)
    IN  CASE n = 1 -> family
          [] n = 2 -> <<family[1], family[3], family[2]>>
          [] OTHER -> Document(1, <<0>>)

\* The i-th content: the first three hold the three block maps, the later
\* ones are other objects holding the same block maps again.
ContentOf(i) == Content(i, BlockMapOf(((i - 1) % 3) + 1))
Contents == {ContentOf(i) : i \in 1..MaxContents}

\* The editor states passed as props: any content with any focus, composition
\* mode and forced selection, natively rendered or not; and a second state
\* object of the same values, a new direction map, a new decorator, another
\* content natively rendered.
EditorStates ==
    UNION {{EditorState(1, c, 1, f, n, comp, 1, force) :
               f \in BOOLEAN, n \in {0, c.id}, comp \in BOOLEAN,
               force \in BOOLEAN} : c \in Contents}
    \cup {EditorState(2, c, 1, FALSE, 0, FALSE, 1, FALSE) : c \in Contents}
    \cup {EditorState(1, c, 2, FALSE, 0, FALSE, 1, FALSE) : c \in Contents}
    \cup {EditorState(1, c, 1, FALSE, 0, FALSE, 2, FALSE) : c \in Contents}
    \cup {EditorState(1, c, 1, FALSE, n, FALSE, 1, FALSE) :
            c \in Contents, n \in 1..MaxContents}

InitContents ==
    /\ EditorIdle
    /\ SelectionIdle
    /\ html = HTMLString(0, <<>>)
    /\ EMPTY_CHUNK = EMPTY_CHUNK_AtLoad
    /\ imported = NothingImported
    /\ ComponentIdle

ComponentStep(next) ==
    /\ component' = next
    /\ UNCHANGED editorVars
    /\ UNCHANGED importVars
    /\ UNCHANGED selectionVars

\* The component is constructed with an editor state; its first render is
\* to come.
Mount ==
    /\ ~component.mounted
    /\ \E editorState \in EditorStates :
          ComponentStep(Instance(TRUE, editorState, NoEditorState, NoTree,
                                 NothingRendered, FALSE, "first render"))

\* New props for which shouldComponentUpdate returns true: the props are set
\* and a render is to come.
UpdateAccepted ==
    /\ component.mounted
    /\ component.next = "none"
    /\ \E editorState \in EditorStates :
          /\ shouldComponentUpdate(component, [editorState |-> editorState])
          /\ ComponentStep([component EXCEPT !.props = [editorState |-> editorState],
                                             !.next = "render"])

\* New props for which shouldComponentUpdate returns false: the props are
\* set and nothing else runs.
UpdateSkipped ==
    /\ component.mounted
    /\ component.next = "none"
    /\ \E editorState \in EditorStates :
          /\ ~shouldComponentUpdate(component, [editorState |-> editorState])
          /\ ComponentStep([component EXCEPT !.props = [editorState |-> editorState],
                                             !.skipped = TRUE])

\* render() runs: the first one, after which the component waits for props,
\* or the one of an update, after which componentDidUpdate is to come and
\* _prevEditorState is still the state rendered before.
Render ==
    /\ component.next \in {"first render", "render"}
    /\ ComponentStep([render(component) EXCEPT
                         !.next = IF component.next = "render"
                                  THEN "componentDidUpdate" ELSE "none"])

\* componentDidUpdate() runs after the render of an update.
DidUpdate ==
    /\ component.next = "componentDidUpdate"
    /\ ComponentStep([componentDidUpdate(component) EXCEPT !.next = "none"])

NextContents == Mount \/ UpdateAccepted \/ UpdateSkipped \/ Render \/ DidUpdate
SpecContents == InitContents /\ [][NextContents]_vars

(* ------------------- what the last transaction did -------------------- *)

\* The last transaction was `op` and it returned a ContentState.
Did(op) == last.op = op /\ last.threw = ""

\* The block map before the last transaction and the one it returned.
oldMap == last.blockMap
newMap == contentState.blockMap

\* The block the last transaction was applied to, in the map before it, and
\* the offset in that block.
targetAt == IndexOfKey(oldMap, getStartKey(last.selection))
targetBlock == oldMap[targetAt]
targetOffset == getStartOffset(last.selection)

\* The blocks of the returned map that stand where the target block stood:
\* the map grew by Len(newMap) - Len(oldMap) blocks at that place.
replacing == SubSeq(newMap, targetAt, targetAt + Len(newMap) - Len(oldMap))

\* The texts, and the character lists, of a sequence of blocks, concatenated.
RECURSIVE textsOf(_)
textsOf(blocks) ==
    IF blocks = <<>> THEN <<>> ELSE Head(blocks).text \o textsOf(Tail(blocks))

RECURSIVE charactersOf(_)
charactersOf(blocks) ==
    IF blocks = <<>> THEN <<>>
    ELSE Head(blocks).characterList \o charactersOf(Tail(blocks))

\* A selection is valid in a block map: both ends name a block of the map and
\* lie within its text.
EndValid(bm, key, offset) ==
    /\ key \in KeysOf(bm)
    /\ 0 <= offset
    /\ offset <= Len(bm[IndexOfKey(bm, key)].text)

SelectionValid(bm, sel) ==
    /\ EndValid(bm, sel.anchorKey, sel.anchorOffset)
    /\ EndValid(bm, sel.focusKey, sel.focusOffset)

(* ------------------------------ claims -------------------------------- *)

\* C1: splitBlock replaces the block by blocks whose texts, concatenated in
\* document order, are the original text, and whose character lists,
\* concatenated in the same order, are the original character list.
C1_SplitConservesCharacters ==
    Did("split") =>
        /\ Len(newMap) > Len(oldMap)
        /\ textsOf(replacing) = targetBlock.text
        /\ charactersOf(replacing) = targetBlock.characterList
        /\ textsOf(newMap) = textsOf(oldMap)
        /\ charactersOf(newMap) = charactersOf(oldMap)

\* C1 witness: a split strictly inside a block's text has returned.
C1_SplitInsideText ==
    /\ Did("split")
    /\ 0 < targetOffset
    /\ targetOffset < Len(targetBlock.text)

\* C2 (as claimed): splitBlock on a well-formed tree returns a tree in which
\* every non-empty parentKey resolves and the order is a pre-order flattening.
C2_SplitKeepsTreeWellFormed ==
    (Did("split") /\ WellFormed(oldMap)) =>
        /\ ParentsResolve(newMap)
        /\ PreOrder(newMap)

\* C3 (as claimed): insertFragment of a well-formed fragment of two or more
\* blocks into a well-formed tree returns a pre-order flattening in which every
\* non-empty parentKey resolves. Stated here for the fragments that share no
\* key with the document, where no block of either is overwritten.
C3_InsertKeepsTreeWellFormed ==
    (/\ Did("insert")
     /\ Len(fragment) >= 2
     /\ WellFormed(oldMap)
     /\ WellFormed(fragment)
     /\ KeysOf(fragment) \cap KeysOf(oldMap) = {}) =>
        /\ ParentsResolve(newMap)
        /\ PreOrder(newMap)

\* C4: insertFragment of a one-block fragment with text p at offset k of a
\* block with text t keeps the number, the order and the keys of the blocks,
\* sets the target's text to t[0..k) + p + t[k..) and its character list the
\* same way, changes no other block, and returns the selection collapsed at
\* offset k + len(p) of the target block.
C4_SingleBlockInsert ==
    (Did("insert") /\ Len(fragment) = 1) =>
        LET t == targetBlock.text
            c == targetBlock.characterList
            k == targetOffset
            pasted == fragment[1]
            after == contentState.selectionAfter
        IN  /\ Len(newMap) = Len(oldMap)
            /\ \A i \in 1..Len(oldMap) : newMap[i].key = oldMap[i].key
            /\ \A i \in 1..Len(oldMap) : i # targetAt => newMap[i] = oldMap[i]
            /\ newMap[targetAt].text
                 = SubSeq(t, 1, k) \o pasted.text \o SubSeq(t, k + 1, Len(t))
            /\ newMap[targetAt].characterList
                 = SubSeq(c, 1, k) \o pasted.characterList \o SubSeq(c, k + 1, Len(c))
            /\ after.anchorKey = targetBlock.key
            /\ after.focusKey = targetBlock.key
            /\ after.anchorOffset = k + Len(pasted.text)
            /\ after.focusOffset = k + Len(pasted.text)
            /\ selection = after

\* C4 witness: a one-block fragment was inserted strictly inside a text.
C4_SingleBlockInsertedInside ==
    /\ Did("insert")
    /\ Len(fragment) = 1
    /\ 0 < targetOffset
    /\ targetOffset < Len(targetBlock.text)
    /\ Len(fragment[1].text) > 0

\* C5: splitBlock and insertFragment called with a selection that is not
\* collapsed throw, and no new tree is produced: the content state and the
\* selection stay as they were.
C5_NonCollapsedThrows ==
    (last.op \in {"split", "insert"} /\ ~isCollapsed(last.selection)) =>
        /\ last.threw = "Invariant Violation"
        /\ contentState.blockMap = last.blockMap
        /\ selection = last.selection
        /\ keyCount = last.keyCount

\* C5 witness: insertFragment was called with a backward range selection.
C5_CalledWithRange ==
    /\ last.op = "insert"
    /\ ~isCollapsed(last.selection)
    /\ last.selection.isBackward

\* C6: after any sequence of transactions, each applied with the selection the
\* one before returned, the returned selection names blocks of the returned
\* tree and its offsets lie within their texts.
C6_ReturnedSelectionValid ==
    (last.op # "none" /\ last.threw = "") =>
        /\ SelectionValid(newMap, contentState.selectionAfter)
        /\ selection = contentState.selectionAfter

\* C6 witness: a second transaction returned, applied with the selection of
\* the first, and both kinds of transaction have run.
C6_TwoTransactionsReturned ==
    /\ ops >= 2
    /\ Did("split")
    /\ Len(newMap) = Len(oldMap) + 1
    /\ \E i \in 1..Len(oldMap) : "pasted" \in oldMap[i].data

\* C7: after any sequence of transactions on a tree and with fragments whose
\* blocks have as many characterList entries as characters, every block of
\* every returned tree has as many characterList entries as characters.
C7_CharacterListMatchesText ==
    CharsMatchText(newMap)

\* C7 witness: a multi-block insert returned after an earlier split.
C7_InsertAfterSplit ==
    /\ ops >= 2
    /\ Did("insert")
    /\ Len(fragment) >= 2
    /\ Len(oldMap) > MaxInitBlocks

\* C8 (as claimed): a multi-block insert of a k-block fragment into a tree of
\* n blocks with unique keys returns n + k - 1 blocks with pairwise distinct
\* keys, also when a fragment block has the key of a block of the document.
C8_InsertAddsAllBlocks ==
    (Did("insert") /\ Len(fragment) >= 2 /\ UniqueKeys(oldMap)) =>
        /\ Len(newMap) = Len(oldMap) + Len(fragment) - 1
        /\ UniqueKeys(newMap)

\* C9: splitBlock at offset k of a block with text t puts in its place the
\* texts ['', t] when k = 0 and t is not empty, [t, ''] when k = len(t) and t
\* is not empty, and [t[0..k), '', t[k..)] when 0 < k < len(t); every other
\* block keeps its content and its place relative to the others.
C9_SplitShape ==
    Did("split") =>
        LET t == targetBlock.text
            k == targetOffset
            n == Len(replacing)
            texts == [i \in 1..n |-> replacing[i].text]
        IN  /\ (k = 0 /\ t # <<>>) => texts = << <<>>, t >>
            /\ (k = Len(t) /\ t # <<>>) => texts = << t, <<>> >>
            /\ (0 < k /\ k < Len(t)) =>
                  texts = << SubSeq(t, 1, k), <<>>, SubSeq(t, k + 1, Len(t)) >>
            /\ SubSeq(newMap, 1, targetAt - 1) = SubSeq(oldMap, 1, targetAt - 1)
            /\ SubSeq(newMap, targetAt + n, Len(newMap))
                 = SubSeq(oldMap, targetAt + 1, Len(oldMap))

\* C9 witness: a split at the end of a text that is not empty has returned.
C9_SplitAtEnd ==
    /\ Did("split")
    /\ targetBlock.text # <<>>
    /\ targetOffset = Len(targetBlock.text)

\* C10 (as claimed): every block splitBlock puts in place of the split block
\* has a new key: none has the key of the original block, and their keys are
\* pairwise distinct.
C10_AllReplacingKeysFresh ==
    Did("split") =>
        /\ \A i \in 1..Len(replacing) : replacing[i].key \notin KeysOf(oldMap)
        /\ UniqueKeys(replacing)

\* C10 (amended): the head block and the tail block have new keys, the new
\* empty block keeps the key of the original block, and the keys of the
\* blocks put in place of the split block are pairwise distinct.
C10_HeadAndTailKeysFresh ==
    Did("split") =>
        LET n == Len(replacing)
        IN  /\ UniqueKeys(replacing)
            /\ n \in {2, 3}
            /\ replacing[1].key \notin KeysOf(oldMap)
            /\ targetOffset = 0 => replacing[2].key \notin KeysOf(oldMap)
            /\ targetOffset > 0 => replacing[2].key = targetBlock.key
            /\ n = 3 => replacing[3].key \notin KeysOf(oldMap)

\* C10 witness: a split has put three blocks in place of one.
C10_ThreeBlocksInPlace ==
    /\ Did("split")
    /\ Len(replacing) = 3

\* C11 (as claimed): the selection splitBlock returns is collapsed at offset
\* 0, not backward, on the new empty block in the three-block case and on the
\* below block (the second of the two) in both two-block cases.
C11_SplitSelectionOnCurrentBlock ==
    Did("split") =>
        LET after == contentState.selectionAfter
        IN  /\ after.anchorOffset = 0
            /\ after.focusOffset = 0
            /\ after.anchorKey = after.focusKey
            /\ ~after.isBackward
            /\ after.anchorKey = replacing[2].key

\* C12: every block splitBlock produces has the parentKey of the original
\* block; the data is reset to empty on the tail block only, the head block
\* and the new empty block keep the data of the original block.
C12_SplitParentAndData ==
    Did("split") =>
        LET n == Len(replacing)
        IN  /\ \A i \in 1..n : replacing[i].parentKey = targetBlock.parentKey
            /\ replacing[1].data = targetBlock.data
            /\ (n = 2 /\ targetOffset = 0) => replacing[2].data = {}
            /\ (n = 2 /\ targetOffset > 0) => replacing[2].data = targetBlock.data
            /\ n = 3 => (replacing[2].data = targetBlock.data /\ replacing[3].data = {})

\* C12 witness: a block with a parent and with data was split in three.
C12_SplitChildWithData ==
    /\ Did("split")
    /\ Len(replacing) = 3
    /\ targetBlock.parentKey # ""
    /\ targetBlock.data # {}

\* The head block of a multi-block insert as the code builds it: the target's
\* text before the offset followed by the text of the fragment's first block.
headText == SubSeq(targetBlock.text, 1, targetOffset) \o fragment[1].text

\* C13 (as claimed): for a fragment of two or more blocks insertFragment
\* returns a selection collapsed, not backward, at offset 0 of the target
\* block's key, and that key names the head block of the returned tree.
C13_MultiInsertSelectionOnHead ==
    (Did("insert") /\ Len(fragment) >= 2) =>
        LET after == contentState.selectionAfter
        IN  /\ after.anchorKey = targetBlock.key
            /\ after.focusKey = targetBlock.key
            /\ after.anchorOffset = 0
            /\ after.focusOffset = 0
            /\ ~after.isBackward
            /\ IndexOfKey(newMap, targetBlock.key) = targetAt
            /\ newMap[targetAt].text = headText

\* C14 (as claimed): in a multi-block insert the inserted copy of a fragment
\* block whose parent is fragment block p has as parentKey the key of the block
\* p became (the head for the fragment's first block), and the copy of a block
\* with no parent in the fragment has the target block's parentKey. Stated for
\* the fragments that share no key with the document, where the copy of the
\* i-th fragment block is the block i - 1 places after the head.
C14_FragmentHierarchySurvives ==
    (/\ Did("insert")
     /\ Len(fragment) >= 2
     /\ UniqueKeys(oldMap)
     /\ KeysOf(fragment) \cap KeysOf(oldMap) = {}) =>
        \A i \in 2..Len(fragment) :
            LET copy == newMap[targetAt + i - 1]
                p == fragmentGet(fragment, fragment[i].parentKey)
            IN  IF p = 0
                THEN copy.parentKey = targetBlock.parentKey
                ELSE copy.parentKey = newMap[targetAt + p - 1].key

(* --------------------- what the last import did ----------------------- *)

\* The last import returned a list of content blocks.
importReturned == imported.called /\ imported.threw = "" /\ ~imported.isNull

\* The last import was called with EMPTY_CHUNK as it is when the module is
\* loaded: no earlier call has left anything in it.
importedFresh == imported.called /\ imported.before = EMPTY_CHUNK_AtLoad

\* The content blocks and the markup of the last import.
contentBlocks == imported.contentBlocks
markup == imported.html.markup

\* C15 (as claimed): importing the empty string or a string of white space
\* only returns exactly one content block, of type paragraph, depth 0 and
\* empty text; the list is never absent.
C15_BlankImportGivesOneParagraph ==
    (importedFresh /\ markup = <<>>) =>
        /\ importReturned
        /\ Len(contentBlocks) = 1
        /\ contentBlocks[1].type = "paragraph"
        /\ contentBlocks[1].depth = 0
        /\ contentBlocks[1].text = <<>>

\* The markup is n >= 1 sibling divs, each wrapping one text node.
divsOfText(nodes) ==
    /\ nodes # <<>>
    /\ \A i \in 1..Len(nodes) :
          /\ nodes[i].nodeName = "div"
          /\ Len(nodes[i].childNodes) = 1
          /\ nodes[i].childNodes[1].nodeName = "#text"
          /\ nodes[i].childNodes[1].textContent # <<>>

\* C16: importing n >= 1 sibling divs, each wrapping one text node that is
\* not empty, with no structural element, returns exactly n paragraph blocks
\* whose texts are the texts of the divs in document order.
C16_DivsBecomeParagraphs ==
    (imported.called /\ divsOfText(markup)) =>
        /\ importReturned
        /\ Len(contentBlocks) = Len(markup)
        /\ \A i \in 1..Len(markup) :
              /\ contentBlocks[i].type = "paragraph"
              /\ contentBlocks[i].text = markup[i].childNodes[1].textContent

\* C16 witness: two sibling divs of text were imported.
C16_TwoDivsImported ==
    /\ importReturned
    /\ divsOfText(markup)
    /\ Len(markup) = 2

\* C17 (as claimed): every content block the import returns has a
\* characterList as long as its text.
C17_ImportedCharactersMatchText ==
    (importReturned /\ importedFresh) => CharsMatchText(contentBlocks)

\* C18 (as claimed): every content block the import returns has a depth in
\* 0..MAX_DEPTH.
C18_ImportedDepthInRange ==
    (importReturned /\ importedFresh) =>
        \A i \in 1..Len(contentBlocks) : contentBlocks[i].depth \in 0..MAX_DEPTH

\* The block types of the structural elements of a forest, in document
\* pre-order.
RECURSIVE structuralTypes(_)
structuralTypes(forest) ==
    IF forest = <<>> THEN <<>>
    ELSE LET node == Head(forest)
         IN  (IF isStructural(node.nodeName)
              THEN <<getBlockTypeForTag(node.nodeName)>> ELSE <<>>)
             \o structuralTypes(node.childNodes)
             \o structuralTypes(Tail(forest))

\* The types of a list of blocks that are types of structural elements.
RECURSIVE structuralTypesOf(_)
structuralTypesOf(blocks) ==
    IF blocks = <<>> THEN <<>>
    ELSE (IF Head(blocks).type # "paragraph" THEN <<Head(blocks).type>> ELSE <<>>)
         \o structuralTypesOf(Tail(blocks))

\* C19 (as claimed): for every structural element of the imported tree the
\* output has exactly one block of the mapped type, and these blocks are in
\* the document pre-order of their elements.
C19_OneBlockPerStructuralElement ==
    (importReturned /\ importedFresh) =>
        structuralTypesOf(contentBlocks) = structuralTypes(markup)

\* C20 (as claimed): every returned block with a parentKey that is not empty
\* references the key of a block earlier in the returned list.
C20_ImportedParentsResolve ==
    (importReturned /\ importedFresh) =>
        \A i \in 1..Len(contentBlocks) :
            contentBlocks[i].parentKey \notin {"", undefined} =>
                \E j \in 1..(i - 1) : contentBlocks[j].key = contentBlocks[i].parentKey

\* The style of every text node of a forest, in document order, as the
\* ancestor chain gives it: every element applies processInlineTag to the
\* style it inherits.
RECURSIVE stylesOfText(_, _)
stylesOfText(forest, inherited) ==
    IF forest = <<>> THEN <<>>
    ELSE LET node == Head(forest)
         IN  (IF node.nodeName = "#text" THEN <<inherited>>
              ELSE IF node.nodeName = "br" THEN <<>>
              ELSE stylesOfText(node.childNodes,
                                processInlineTag(node.nodeName, node, inherited)))
             \o stylesOfText(Tail(forest), inherited)

\* The number of the text node a character comes from.
textNodeOf(character) == character \div 10

\* C21 (as claimed): every character of an imported block carries exactly the
\* style set accumulated along the ancestor chain of its text node, whatever
\* the sibling subtrees and the line breaks are.
C21_CharactersCarryInheritedStyle ==
    (importReturned /\ importedFresh) =>
        \A i \in 1..Len(contentBlocks) :
            \A j \in 1..Len(contentBlocks[i].text) :
                /\ j <= Len(contentBlocks[i].characterList)
                /\ contentBlocks[i].characterList[j].style
                     = stylesOfText(markup, {})[textNodeOf(contentBlocks[i].text[j])]

(* ------------------ what the reconciliation pass did ------------------ *)

\* The selection the calls of the pass worked with.
passSelection == effectiveSelection(pass.selectionState, browser)

\* Every leaf of the pass has made its call and none threw.
passDone ==
    /\ pass.calls > 0
    /\ pass.calls = Len(pass.units)
    /\ pass.threw = ""

\* The native points of an offset of a block: one in each unit holding it.
pointsOf(key, offset) ==
    {<<pass.units[n].node, offset - pass.units[n].nodeStart>> :
        n \in {n \in 1..Len(pass.units) :
                 /\ pass.units[n].blockKey = key
                 /\ pass.units[n].nodeStart <= offset
                 /\ pass.units[n].nodeEnd >= offset}}

\* The operations that move the focus end of the native selection.
extensions == {i \in 1..Len(pass.log) : pass.log[i].op \in {"extend", "setEnd"}}

\* Before operation i the ranges were removed and then a range was added at
\* the anchor of the selection.
anchorPlacedBefore(i) ==
    \E j \in 1..Len(pass.log) : \E k \in 1..Len(pass.log) :
        /\ j < k /\ k < i
        /\ pass.log[j].op = "removeAllRanges"
        /\ pass.log[k].op = "addRange"
        /\ pass.log[k].point
             \in pointsOf(passSelection.anchorKey, passSelection.anchorOffset)

\* C22 (as claimed): after the pass for a backward selection over two blocks
\* the native anchor is at the logical anchor and the native focus at the
\* logical focus, so that the span is the one of the forward selection.
C22_BackwardPassKeepsAnchorAndFocus ==
    (/\ passDone
     /\ browser.attached
     /\ pass.selectionState.isBackward
     /\ pass.selectionState.anchorKey # pass.selectionState.focusKey) =>
        /\ nativeSelection.anchor
             \in pointsOf(pass.selectionState.anchorKey,
                          pass.selectionState.anchorOffset)
        /\ nativeSelection.focus
             \in pointsOf(pass.selectionState.focusKey,
                          pass.selectionState.focusOffset)

\* C23: in a pass for a forward selection, every extension of the native
\* selection comes after the ranges were removed and the anchor was placed.
C23_ExtensionAfterAnchor ==
    ~passSelection.isBackward =>
        \A i \in extensions : anchorPlacedBefore(i)

\* C23 witness: a forward selection from one block to the next, the selection
\* found was a range, and the pass has extended the native selection.
C23_ForwardPassExtended ==
    /\ ~pass.selectionState.isBackward
    /\ pass.selectionState.anchorKey # pass.selectionState.focusKey
    /\ typeOf(pass.before) = "Range"
    /\ extensions # {}

\* C24: resetIESelection never runs while the native selection holds a valid
\* range.
C24_NoResetOnValidRange ==
    \A i \in 1..Len(pass.log) :
        pass.log[i].op = "resetIESelection" => ~pass.log[i].valid

\* C24 witness: the pass found a valid range and resetIESelection has run in
\* it.
C24_ResetRanAfterValidRange ==
    /\ holdsValidRange(pass.before)
    /\ \E i \in 1..Len(pass.log) : pass.log[i].op = "resetIESelection"

\* C25: an extend that throws is the last operation of its call, and the
\* call throws the error.
C25_ExtendErrorPropagates ==
    \A i \in 1..Len(pass.log) :
        (pass.log[i].op = "extend" /\ pass.log[i].threw) =>
            /\ pass.threw = "Error"
            /\ i = Len(pass.log)

\* C25 witness: extend threw in a call of the pass.
C25_ExtendThrew ==
    /\ Len(pass.log) > 0
    /\ pass.log[Len(pass.log)].op = "extend"
    /\ pass.log[Len(pass.log)].threw

(* ------------------- the last join of the last import ----------------- *)

\* The last call of joinChunks in the import of the held string, the one
\* made by genFragment's loop over the children of the body for the last
\* child: A is the chunk of the children before it, B the chunk of the last
\* child.
lastJoin ==
    LET children == DOMBuilder(trim(html)).childNodes
        n == Len(children)
        isUnstyled == children # <<>> /\ children[1].nodeName = "span"
        before == genChildren(EMPTY_CHUNK_AtLoad, SubSeq(children, 1, n - 1), 1,
                              EMPTY_CHUNK_AtLoad, {}, -1, undefined, isUnstyled, 0)
        g == genFragment(EMPTY_CHUNK_AtLoad, children[n], {}, -1, undefined,
                         before.keyCount)
    IN  [made |-> n >= 2 /\ before.threw = "" /\ g.threw = ""
                  /\ ~joinChunksThrows(before.chunk, g.chunk),
         A |-> before.chunk, B |-> g.chunk, isSibling |-> TRUE,
         isUnstyled |-> isUnstyled]

\* The import of the held string returned the chunk of its last join, in
\* which A ended and B began with the delimiter and A's last descriptor was a
\* paragraph.
joinedTouching ==
    /\ importReturned /\ importedFresh
    /\ imported.html = html
    /\ lastJoin.made
    /\ touching(lastJoin.A, lastJoin.B)
    /\ lastJoin.A.blocks[Len(lastJoin.A.blocks)].type = "paragraph"
    /\ imported.chunk.text = joinChunks(lastJoin.A, lastJoin.B, lastJoin.isSibling,
                                        lastJoin.isUnstyled).text

\* The characters of a chunk's text that are not the delimiter.
isCharacter(c) == c # CR
charactersIn(text) == SelectSeq(text, isCharacter)
delimitersIn(text) == Len(text) - Len(charactersIn(text))

\* C26 (as claimed): the join of touching chunks has one delimiter less than
\* A and B have together, and every other character of A and of B, in order.
C26_TouchingJoinKeepsCharacters ==
    joinedTouching =>
        /\ charactersIn(imported.chunk.text)
             = charactersIn(lastJoin.A.text) \o charactersIn(lastJoin.B.text)
        /\ delimitersIn(imported.chunk.text)
             = delimitersIn(lastJoin.A.text) + delimitersIn(lastJoin.B.text) - 1

(* ------------------- segments, descriptors and text ------------------- *)

\* The content of the text nodes of a forest, in document order.
RECURSIVE textContentOf(_)
textContentOf(forest) ==
    IF forest = <<>> THEN <<>>
    ELSE Head(forest).textContent \o textContentOf(Head(forest).childNodes)
         \o textContentOf(Tail(forest))

\* The characters of a sequence, as a set.
Range(seq) == {seq[i] : i \in 1..Len(seq)}

\* The characters of the texts of a list of blocks.
charactersOfBlocks(blocks) ==
    UNION {Range(blocks[i].text) : i \in 1..Len(blocks)}

\* C27 (as claimed): the chunk the import hands to convertChunkToContentBlocks
\* has as many segments as descriptors, and every character of every text
\* node is in the text of some content block returned.
C27_SegmentsPairedWithDescriptors ==
    (imported.called /\ imported.threw = "" /\ importedFresh) =>
        /\ Len(split(imported.chunk.text)) = Len(imported.chunk.blocks)
        /\ Range(textContentOf(markup)) \subseteq charactersOfBlocks(contentBlocks)

(* ------------------- the text of a multi-block insert ----------------- *)

\* The text, and the character metadata, the document has in order when the
\* fragment's blocks stand between the target's text before the offset and
\* its text from the offset on.
textWithFragment ==
    textsOf(SubSeq(oldMap, 1, targetAt - 1))
    \o slice(targetBlock.text, 0, targetOffset)
    \o textsOf(fragment)
    \o sliceFrom(targetBlock.text, targetOffset)
    \o textsOf(SubSeq(oldMap, targetAt + 1, Len(oldMap)))

charactersWithFragment ==
    charactersOf(SubSeq(oldMap, 1, targetAt - 1))
    \o slice(targetBlock.characterList, 0, targetOffset)
    \o charactersOf(fragment)
    \o sliceFrom(targetBlock.characterList, targetOffset)
    \o charactersOf(SubSeq(oldMap, targetAt + 1, Len(oldMap)))

\* C28 (as claimed): after a multi-block insert at offset k of a block with
\* text t the document's text in order is t[0..k), the fragment's texts, then
\* t[k..), around the text of the other blocks, and so are its characters'
\* metadata. Stated for the fragments that share no key with the document.
C28_MultiInsertKeepsTail ==
    (/\ Did("insert")
     /\ Len(fragment) >= 2
     /\ UniqueKeys(oldMap)
     /\ KeysOf(fragment) \cap KeysOf(oldMap) = {}) =>
        /\ textsOf(newMap) = textWithFragment
        /\ charactersOf(newMap) = charactersWithFragment

(* ------------------- an import and the imports before ----------------- *)

\* What the string of the last import gives when it is imported first after
\* the module is loaded.
importedFirst == convertFromHTMLtoContentBlocks(EMPTY_CHUNK_AtLoad, imported.html)

\* The position in a list of blocks of the parent of its i-th block, 0 for a
\* block with no parent.
parentIn(blocks, i) ==
    IF blocks[i].parentKey \in {"", undefined} THEN 0
    ELSE IndexOfKey(blocks, blocks[i].parentKey)

\* Two lists of blocks with the same types, depths, texts and parents.
sameBlocks(bs, cs) ==
    /\ Len(bs) = Len(cs)
    /\ \A i \in 1..Len(bs) :
          /\ bs[i].type = cs[i].type
          /\ bs[i].depth = cs[i].depth
          /\ bs[i].text = cs[i].text
          /\ parentIn(bs, i) = parentIn(cs, i)

\* C29 (as claimed): whatever was imported before, an import gives what the
\* same string gives when imported first: the same outcome and blocks of the
\* same types, depths, texts and parents.
C29_ImportStateless ==
    imported.called =>
        /\ imported.threw = importedFirst.threw
        /\ imported.isNull = importedFirst.isNull
        /\ sameBlocks(contentBlocks, importedFirst.contentBlocks)

(* ----------------------- what the component rendered ------------------ *)

====
